---- MODULE Spec2Model ----
(***************************************************************************)
(* Telegram plan bot: the task lifecycle state machine, the callback       *)
(* idempotency gate and the per-user job scheduler, modelled from the      *)
(* Python sources (src/src/core, src/src/bot, src/src/db, src/main.py).    *)
(*                                                                         *)
(* A stored due date 'YYYY-MM-DD' is the record [y, m, d] of its three     *)
(* zero-padded numbers; strptime / timedelta / strftime are modelled by    *)
(* the proleptic Gregorian ordinal of CPython's datetime.                  *)
(***************************************************************************)
EXTENDS Integers, Sequences, FiniteSets, Bags, TLC

VARIABLES
    users,      \* table users: sequence indexed by users.id (autoincrement)
    tasks,      \* table tasks: sequence indexed by tasks.id (autoincrement)
    callbacks,  \* table callbacks: rows [callback_id, task_id, action, days] as inserted
    jobs,       \* APScheduler job store: bag of jobs [id, func, hour, minute, tz]
    phase,      \* position of main(): "boot" before rebuild_all_jobs, then "running"
    handlers,   \* in-flight coroutines (update handlers), by slot
    presses,    \* per interaction identifier: the callback data it carries, its deliveries
    cblog,      \* per interaction identifier: what each handled attempt did, in order
    routine,    \* the scheduled coroutine in flight (startup sweep, evening, morning)
    last        \* the operation performed by the last step and what it returned

vars == <<users, tasks, callbacks, jobs, phase, handlers, presses, cblog, routine, last>>

(***************************************************************************)
(* Bounds of the model.                                                    *)
(***************************************************************************)
MaxTasks == 1
MaxHorizon == 2
MaxUsers == 2
MaxHandlers == 2
MaxCallbacks == 1
MaxDeliveries == 2
MaxStoredTasks == 2

(***************************************************************************)
(* Constants of the program.                                               *)
(***************************************************************************)
STATUS_PENDING == "pending"
STATUS_DONE == "done"
STATUS_CANCELED == "canceled"
STATUS_MISSED == "missed"

ACTION_DONE == "done"
ACTION_UNDONE == "un"
ACTION_CANCEL == "cancel"
ACTION_POSTPONE == "p"

DEFAULT_TIMEZONE == "Asia/Shanghai"
DEFAULT_EVENING_HOUR == 22
DEFAULT_EVENING_MINUTE == 0
DEFAULT_MORNING_HOUR == 8
DEFAULT_MORNING_MINUTE == 30

\* The day counts the postpone buttons carry (t:<id>:p:1, t:<id>:p:2).
PostponeDays == {1, 2}

(***************************************************************************)
(* Calendar arithmetic of datetime (proleptic Gregorian ordinal).          *)
(***************************************************************************)
IsLeap(y) == (y % 4 = 0) /\ ((y % 100 # 0) \/ (y % 400 = 0))

DaysInMonth(y, m) ==
    IF m = 2 THEN (IF IsLeap(y) THEN 29 ELSE 28)
    ELSE IF m \in {4, 6, 9, 11} THEN 30 ELSE 31

\* Days before the first day of month m in a non-leap year (_DAYS_BEFORE_MONTH).
DaysBeforeMonthTable == <<0, 31, 59, 90, 120, 151, 181, 212, 243, 273, 304, 334>>

DaysBeforeYear(y) ==
    (y - 1) * 365 + ((y - 1) \div 4) - ((y - 1) \div 100) + ((y - 1) \div 400)

DaysBeforeMonth(y, m) ==
    DaysBeforeMonthTable[m] + (IF m > 2 /\ IsLeap(y) THEN 1 ELSE 0)

ymd2ord(dt) == DaysBeforeYear(dt.y) + DaysBeforeMonth(dt.y, dt.m) + dt.d

ord2ymd(ordinal) ==
    LET n0   == ordinal - 1
        n400 == n0 \div 146097
        r400 == n0 % 146097
        n100 == r400 \div 36524
        r100 == r400 % 36524
        n4   == r100 \div 1461
        r4   == r100 % 1461
        n1   == r4 \div 365
        n    == r4 % 365
        year == n400 * 400 + 1 + n100 * 100 + n4 * 4 + n1
    IN  IF n1 = 4 \/ n100 = 4
        THEN [y |-> year - 1, m |-> 12, d |-> 31]
        ELSE LET leap  == n1 = 3 /\ (n4 # 24 \/ n100 = 3)
                 add(mm) == IF mm > 2 /\ leap THEN 1 ELSE 0
                 m0    == (n + 50) \div 32
                 p0    == DaysBeforeMonthTable[m0] + add(m0)
                 month == IF p0 > n THEN m0 - 1 ELSE m0
                 prec  == DaysBeforeMonthTable[month] + add(month)
             IN  [y |-> year, m |-> month, d |-> n - prec + 1]

\* datetime.strptime(due_date, '%Y-%m-%d') succeeds exactly on a real calendar day.
strptime_ok(dt) ==
    /\ dt.y >= 1 /\ dt.y <= 9999
    /\ dt.m >= 1 /\ dt.m <= 12
    /\ dt.d >= 1 /\ dt.d <= DaysInMonth(dt.y, dt.m)

\* (current_due + timedelta(days)).strftime('%Y-%m-%d')
AddDays(dt, days) == ord2ymd(ymd2ord(dt) + days)

(***************************************************************************)
(* Inputs of the model: the due dates ingestion stores.  parse_date copies *)
(* the digits of an explicit date without validating them, so both a real  *)
(* day and an impossible one (month 13, day 45) reach the store.           *)
(***************************************************************************)
IngestDate == [y |-> 2025, m |-> 11, d |-> 29]
BadDate == [y |-> 2025, m |-> 13, d |-> 45]
DueInputs == {IngestDate, BadDate}

\* Postponement is cut off MaxHorizon days after the ingestion date.
WithinHorizon(dt) == ymd2ord(dt) <= ymd2ord(IngestDate) + MaxHorizon

(***************************************************************************)
(* RecordStore: users.  A User object is the row with its id.              *)
(***************************************************************************)
\* Optional[User] is a sequence of zero or one user; chat_id is unique.
get_user_by_id(us, user_id) ==
    IF user_id \in 1..Len(us) THEN <<us[user_id]>> ELSE <<>>

get_user_by_chat_id(us, chat_id) ==
    LET ids == {i \in 1..Len(us) : us[i].chat_id = chat_id}
    IN  IF ids = {} THEN <<>> ELSE <<us[CHOOSE i \in ids : \A j \in ids : i <= j]>>

create_user(us, chat_id, tz, evening_hour, evening_min, morning_hour, morning_min) ==
    Append(us, [id |-> Len(us) + 1, chat_id |-> chat_id, tz |-> tz,
                evening_hour |-> evening_hour, evening_min |-> evening_min,
                morning_hour |-> morning_hour, morning_min |-> morning_min,
                awaiting_plans |-> FALSE, skipped_tonight |-> FALSE])

set_user_awaiting_plans(us, user_id, awaiting) ==
    IF user_id \notin 1..Len(us) THEN us
    ELSE [us EXCEPT ![user_id].awaiting_plans = awaiting]

set_user_skipped_tonight(us, user_id, skipped) ==
    IF user_id \notin 1..Len(us) THEN us
    ELSE [us EXCEPT ![user_id].skipped_tonight = skipped]

\* The users table after one /start: a single user with the default settings.
OneDefaultUser ==
    create_user(<<>>, 1, DEFAULT_TIMEZONE, DEFAULT_EVENING_HOUR, DEFAULT_EVENING_MINUTE,
                DEFAULT_MORNING_HOUR, DEFAULT_MORNING_MINUTE)

(***************************************************************************)
(* RecordStore: tasks                                                      *)
(***************************************************************************)
\* Optional[Task] is a sequence of zero or one task.
get_task_by_id(ts, task_id) ==
    IF task_id \in 1..Len(ts) THEN <<ts[task_id]>> ELSE <<>>

create_task(ts, user_id, due_date) ==
    Append(ts, [user_id |-> user_id, due_date |-> due_date,
                status |-> STATUS_PENDING,
                completed_at |-> "NULL", canceled_at |-> "NULL"])

update_task_status(ts, task_id, status) ==
    IF task_id \notin 1..Len(ts) THEN ts
    ELSE [ts EXCEPT ![task_id] =
            [@ EXCEPT !.status = status,
                      !.completed_at = IF status = STATUS_DONE THEN "set" ELSE @,
                      !.canceled_at = IF status = STATUS_CANCELED THEN "set" ELSE @]]

update_task_due_date(ts, task_id, new_due_date) ==
    IF task_id \notin 1..Len(ts) THEN ts
    ELSE [ts EXCEPT ![task_id].due_date = new_due_date]

(***************************************************************************)
(* TaskStateMachine: each operation maps the table to the returned value   *)
(* and the table it leaves.                                                *)
(***************************************************************************)
\* mark_as_done without the already-done guard.
mark_as_done_skip_guard(ts, task_id) ==
    LET task == get_task_by_id(ts, task_id)
    IN  IF task = <<>> THEN [ret |-> FALSE, tasks |-> ts]
        ELSE [ret |-> TRUE, tasks |-> update_task_status(ts, task_id, STATUS_DONE)]

\* mark_as_done writing the status missed, for comparison
mark_as_done_as_missed(ts, task_id) ==
    LET task == get_task_by_id(ts, task_id)
    IN  IF task = <<>> THEN [ret |-> FALSE, tasks |-> ts]
        ELSE IF task[1].status = STATUS_DONE THEN [ret |-> FALSE, tasks |-> ts]
        ELSE [ret |-> TRUE, tasks |-> update_task_status(ts, task_id, STATUS_MISSED)]

mark_as_done(ts, task_id) ==
    LET task == get_task_by_id(ts, task_id)
    IN  IF task = <<>> THEN [ret |-> FALSE, tasks |-> ts]
        ELSE IF task[1].status = STATUS_DONE THEN [ret |-> FALSE, tasks |-> ts]
        ELSE [ret |-> TRUE, tasks |-> update_task_status(ts, task_id, STATUS_DONE)]

mark_as_canceled(ts, task_id) ==
    LET task == get_task_by_id(ts, task_id)
    IN  IF task = <<>> THEN [ret |-> FALSE, tasks |-> ts]
        ELSE IF task[1].status = STATUS_CANCELED THEN [ret |-> FALSE, tasks |-> ts]
        ELSE [ret |-> TRUE, tasks |-> update_task_status(ts, task_id, STATUS_CANCELED)]

\* postpone_task leaving the status as it was.
postpone_task_keep_status(ts, task_id, days) ==
    LET task == get_task_by_id(ts, task_id)
    IN  IF task = <<>> THEN [ret |-> <<>>, tasks |-> ts]
        ELSE IF ~strptime_ok(task[1].due_date) THEN [ret |-> <<>>, tasks |-> ts]
        ELSE LET new_due == AddDays(task[1].due_date, days)
             IN  [ret |-> <<new_due>>,
                  tasks |-> update_task_due_date(ts, task_id, new_due)]

\* postpone_task resetting the status before it parses the stored due date.
postpone_task_reset_first(ts, task_id, days) ==
    LET task == get_task_by_id(ts, task_id)
    IN  IF task = <<>> THEN [ret |-> <<>>, tasks |-> ts]
        ELSE LET ts0 == update_task_status(ts, task_id, STATUS_PENDING)
             IN  IF ~strptime_ok(task[1].due_date) THEN [ret |-> <<>>, tasks |-> ts0]
                 ELSE LET new_due == AddDays(task[1].due_date, days)
                      IN  [ret |-> <<new_due>>,
                           tasks |-> update_task_due_date(ts0, task_id, new_due)]

\* Optional[str]: <<>> is None, <<d>> the new due date.
postpone_task(ts, task_id, days) ==
    LET task == get_task_by_id(ts, task_id)
    IN  IF task = <<>> THEN [ret |-> <<>>, tasks |-> ts]
        ELSE IF ~strptime_ok(task[1].due_date) THEN [ret |-> <<>>, tasks |-> ts]
        ELSE LET new_due == AddDays(task[1].due_date, days)
                 ts1 == update_task_due_date(ts, task_id, new_due)
                 ts2 == IF task[1].status # STATUS_PENDING
                        THEN update_task_status(ts1, task_id, STATUS_PENDING)
                        ELSE ts1
             IN  [ret |-> <<new_due>>, tasks |-> ts2]

\* mark_as_missed without the pending guard.
mark_as_missed_any_status(ts, task_id) ==
    LET task == get_task_by_id(ts, task_id)
    IN  IF task = <<>> THEN [ret |-> FALSE, tasks |-> ts]
        ELSE [ret |-> TRUE, tasks |-> update_task_status(ts, task_id, STATUS_MISSED)]

mark_as_missed(ts, task_id) ==
    LET task == get_task_by_id(ts, task_id)
    IN  IF task = <<>> THEN [ret |-> FALSE, tasks |-> ts]
        ELSE IF task[1].status # STATUS_PENDING THEN [ret |-> FALSE, tasks |-> ts]
        ELSE [ret |-> TRUE, tasks |-> update_task_status(ts, task_id, STATUS_MISSED)]

\* The documented transition rule; no caller consults it.
can_transition(ts, task_id) ==
    LET task == get_task_by_id(ts, task_id)
    IN  IF task = <<>> THEN FALSE
        ELSE task[1].status \notin {STATUS_DONE, STATUS_CANCELED}

(***************************************************************************)
(* The TaskLifecycle component driven through its public operations.       *)
(***************************************************************************)
\* Task ids a caller may pass: the stored ones and one that does not exist.
TaskRefs == 1..(MaxTasks + 1)

otherVarsLifecycle == <<users, callbacks, jobs, phase, handlers, presses, cblog, routine>>

InitLifecycle ==
    /\ users = OneDefaultUser
    /\ tasks = <<>>
    /\ callbacks = <<>>
    /\ jobs = EmptyBag
    /\ phase = "running"
    /\ handlers = [h \in 1..MaxHandlers |-> [pc |-> "idle"]]
    /\ presses = [c \in 1..MaxCallbacks |-> [data |-> <<>>, n |-> 0]]
    /\ cblog = [c \in 1..MaxCallbacks |-> <<>>]
    /\ routine = [pc |-> "none"]
    /\ last = [op |-> "init"]

CreateTask(due) ==
    /\ Len(tasks) < MaxTasks
    /\ tasks' = create_task(tasks, 1, due)
    /\ last' = [op |-> "create_task", task |-> Len(tasks) + 1, pre |-> tasks]
    /\ UNCHANGED otherVarsLifecycle

MarkDone(t) ==
    LET r == mark_as_done(tasks, t)
    IN  /\ tasks' = r.tasks
        /\ last' = [op |-> "mark_as_done", task |-> t, ret |-> r.ret, pre |-> tasks]
        /\ UNCHANGED otherVarsLifecycle

MarkCanceled(t) ==
    LET r == mark_as_canceled(tasks, t)
    IN  /\ tasks' = r.tasks
        /\ last' = [op |-> "mark_as_canceled", task |-> t, ret |-> r.ret, pre |-> tasks]
        /\ UNCHANGED otherVarsLifecycle

Postpone(t, days) ==
    LET r == postpone_task(tasks, t, days)
    IN  /\ r.ret # <<>> => WithinHorizon(r.ret[1])
        /\ tasks' = r.tasks
        /\ last' = [op |-> "postpone_task", task |-> t, days |-> days,
                    ret |-> r.ret, pre |-> tasks]
        /\ UNCHANGED otherVarsLifecycle

MarkMissed(t) ==
    LET r == mark_as_missed(tasks, t)
    IN  /\ tasks' = r.tasks
        /\ last' = [op |-> "mark_as_missed", task |-> t, ret |-> r.ret, pre |-> tasks]
        /\ UNCHANGED otherVarsLifecycle

NextLifecycle ==
    \/ \E due \in DueInputs : CreateTask(due)
    \/ \E t \in TaskRefs : MarkDone(t)
    \/ \E t \in TaskRefs : MarkCanceled(t)
    \/ \E t \in TaskRefs, days \in PostponeDays : Postpone(t, days)
    \/ \E t \in TaskRefs : MarkMissed(t)

SpecLifecycle == InitLifecycle /\ [][NextLifecycle]_vars

(***************************************************************************)
(* RecordStore: callbacks.  callback_id carries a UNIQUE constraint: a     *)
(* second insert of the same identifier raises, is caught, returns False.  *)
(***************************************************************************)
is_callback_processed(cbs, callback_id) ==
    \E i \in 1..Len(cbs) : cbs[i].callback_id = callback_id

\* The action column holds "p:<days>" for a postponement: action "p" with days.
mark_callback_processed(cbs, callback_id, task_id, action, days) ==
    IF \E i \in 1..Len(cbs) : cbs[i].callback_id = callback_id
    THEN cbs
    ELSE Append(cbs, [callback_id |-> callback_id, task_id |-> task_id,
                      action |-> action, days |-> days])

(***************************************************************************)
(* CallbackHandlers.  The callback data 't:<task_id>:<action>[:<days>]' or *)
(* 'new:<action>' is the record [prefix, parse, task_id, action, days,     *)
(* chat_id]; parse says which int() of the handler fails on it, if any.    *)
(* A handler maps the database to the database it leaves and the text it   *)
(* then sends with edit_message_text ("none": it sends nothing).           *)
(***************************************************************************)
Data(prefix, parse, task_id, action, days, chat_id) ==
    [prefix |-> prefix, parse |-> parse, task_id |-> task_id,
     action |-> action, days |-> days, chat_id |-> chat_id]

Result(db, reply) == [db |-> db, reply |-> reply]

handle_task_callback(db, callback_id, data) ==
    IF data.parse = "bad_id" THEN Result(db, "invalid")
    ELSE
    LET task_id == data.task_id
        task == get_task_by_id(db.tasks, task_id)
    IN  IF task = <<>> THEN Result(db, "task_not_found")
        ELSE IF data.action = ACTION_DONE THEN
            LET r == mark_as_done(db.tasks, task_id)
            IN  IF r.ret
                THEN Result([db EXCEPT !.tasks = r.tasks,
                                       !.callbacks = mark_callback_processed(
                                            @, callback_id, task_id, ACTION_DONE, 0)],
                            "task_done")
                ELSE Result([db EXCEPT !.tasks = r.tasks], "already_processed")
        ELSE IF data.action = ACTION_UNDONE THEN
            Result([db EXCEPT !.callbacks = mark_callback_processed(
                                    @, callback_id, task_id, ACTION_UNDONE, 0)],
                   "postpone_prompt")
        ELSE IF data.action = ACTION_CANCEL THEN
            LET r == mark_as_canceled(db.tasks, task_id)
            IN  IF r.ret
                THEN Result([db EXCEPT !.tasks = r.tasks,
                                       !.callbacks = mark_callback_processed(
                                            @, callback_id, task_id, ACTION_CANCEL, 0)],
                            "task_canceled")
                ELSE Result([db EXCEPT !.tasks = r.tasks], "already_processed")
        ELSE IF data.action = "p" THEN
            IF data.parse = "bad_days" THEN Result(db, "invalid")
            ELSE
            LET r == postpone_task(db.tasks, task_id, data.days)
            IN  IF r.ret # <<>>
                THEN Result([db EXCEPT !.tasks = r.tasks,
                                       !.callbacks = mark_callback_processed(
                                            @, callback_id, task_id, ACTION_POSTPONE,
                                            data.days)],
                            "postponed")
                ELSE Result([db EXCEPT !.tasks = r.tasks], "postpone_failed")
        ELSE Result(db, "none")

handle_new_plan_callback(db, callback_id, data) ==
    LET user == get_user_by_chat_id(db.users, data.chat_id)
    IN  IF user = <<>> THEN Result(db, "user_not_found")
        ELSE IF data.action = "add" THEN
            Result([db EXCEPT !.callbacks = mark_callback_processed(
                                    @, callback_id, 0, "new_add", 0),
                              !.users = set_user_awaiting_plans(@, user[1].id, TRUE)],
                   "input_mode")
        ELSE IF data.action = "skip" THEN
            Result([db EXCEPT !.callbacks = mark_callback_processed(
                                    @, callback_id, 0, "new_skip", 0),
                              !.users = set_user_skipped_tonight(@, user[1].id, TRUE)],
                   "skipped")
        ELSE Result(db, "none")

\* handle_callback_query without the is_callback_processed check.
handle_callback_query_unchecked(db, callback_id, data) ==
    IF data.prefix = "t" THEN handle_task_callback(db, callback_id, data)
    ELSE IF data.prefix = "new" THEN handle_new_plan_callback(db, callback_id, data)
    ELSE Result(db, "none")

\* handle_callback_query refusing a second tap on the same button, for
\* comparison
handle_callback_query_once_per_button(db, callback_id, data) ==
    IF \/ is_callback_processed(db.callbacks, callback_id)
       \/ \E i \in 1..Len(db.callbacks) :
             /\ db.callbacks[i].task_id = data.task_id
             /\ db.callbacks[i].action = data.action
             /\ db.callbacks[i].days = data.days
    THEN Result(db, "already_processed")
    ELSE handle_callback_query_unchecked(db, callback_id, data)

\* From the resumption after 'await query.answer()' to the next await.
handle_callback_query(db, callback_id, data) ==
    IF is_callback_processed(db.callbacks, callback_id)
    THEN Result(db, "already_processed")
    ELSE IF data.prefix = "t" THEN handle_task_callback(db, callback_id, data)
    ELSE IF data.prefix = "new" THEN handle_new_plan_callback(db, callback_id, data)
    ELSE Result(db, "none")

(***************************************************************************)
(* Callback queries in flight.  A coroutine is suspended only at an await: *)
(* handle_callback_query first awaits query.answer() (pc "answer"); from   *)
(* there to its last await, edit_message_text, it runs without suspension, *)
(* and nothing follows that await but logging, so the rest of the handler  *)
(* is one step.  The transport may deliver the same interaction (same      *)
(* identifier, same data) more than once.  A second callback may be taken  *)
(* while the first is suspended: this schedule includes the one of a       *)
(* dispatcher that takes one update at a time.                             *)
(***************************************************************************)
CallbackIds == 1..MaxCallbacks
Slots == 1..MaxHandlers

\* Callback queries delivered so far, over all interaction identifiers.
RECURSIVE Delivered(_)
Delivered(c) == IF c = 0 THEN 0 ELSE presses[c].n + Delivered(c - 1)

\* The chats a new-plan button is pressed in: every user's, and one of no user.
Chats == 1..(Len(users) + 1)

TaskCallbackData ==
    {Data("t", "ok", t, a, 0, 1) :
        t \in TaskRefs, a \in {ACTION_DONE, ACTION_UNDONE, ACTION_CANCEL, "zz"}}
    \cup {Data("t", "ok", t, "p", d, 1) : t \in TaskRefs, d \in PostponeDays}
    \cup {Data("t", "bad_days", t, "p", 0, 1) : t \in TaskRefs}
    \cup {Data("t", "bad_id", 0, ACTION_DONE, 0, 1)}

NewPlanCallbackData ==
    {Data("new", "ok", 0, a, 0, c) : a \in {"add", "skip", "zz"}, c \in Chats}

Idle == [pc |-> "idle"]

\* A new coroutine takes the lowest free slot.
FreeSlot(h) == handlers[h].pc = "idle" /\ \A g \in 1..(h - 1) : handlers[g].pc # "idle"

InFlight(h, c) == handlers[h].pc = "answer" /\ handlers[h].cb = c

\* The button was shown for this task: it exists, is unresolved, and can be postponed.
Unresolved(ts, d) ==
    /\ d.prefix = "t" /\ d.parse = "ok"
    /\ d.task_id \in 1..Len(ts)
    /\ ts[d.task_id].status \in {STATUS_PENDING, STATUS_MISSED}
    /\ d.action = ACTION_POSTPONE => strptime_ok(ts[d.task_id].due_date)

InitCallbacks == InitLifecycle

DeliverCallback(c, d) ==
    /\ phase = "running"
    /\ Delivered(MaxCallbacks) < MaxDeliveries
    /\ presses[c].data \in {<<>>, <<d>>}
    /\ \E h \in Slots :
        /\ FreeSlot(h)
        /\ handlers' = [handlers EXCEPT ![h] = [pc |-> "answer", cb |-> c, data |-> d]]
    /\ presses' = [presses EXCEPT ![c] = [data |-> <<d>>, n |-> @.n + 1]]
    /\ UNCHANGED <<users, tasks, callbacks, cblog, jobs, phase, routine, last>>

\* query.answer() raises (the query has expired, the network failed).
AnswerFails(h) ==
    /\ handlers[h].pc = "answer"
    /\ handlers' = [handlers EXCEPT ![h] = Idle]
    /\ UNCHANGED <<users, tasks, callbacks, presses, cblog, jobs, phase, routine, last>>

HandleCallback(h) ==
    /\ handlers[h].pc = "answer"
    /\ LET c == handlers[h].cb
           d == handlers[h].data
           r == handle_callback_query(
                    [users |-> users, tasks |-> tasks, callbacks |-> callbacks], c, d)
       IN  /\ users' = r.db.users
           /\ tasks' = r.db.tasks
           /\ callbacks' = r.db.callbacks
           /\ cblog' = [cblog EXCEPT ![c] = Append(@,
                            [mutated |-> r.db.tasks # tasks,
                             reply |-> r.reply,
                             unresolved |-> Unresolved(tasks, d),
                             overlap |-> \E g \in Slots \ {h} : InFlight(g, c)])]
           /\ handlers' = [handlers EXCEPT ![h] = Idle]
    /\ UNCHANGED <<presses, jobs, phase, routine, last>>

NextCallbacks ==
    \/ \E due \in DueInputs : CreateTask(due)
    \/ \E c \in CallbackIds, d \in TaskCallbackData : DeliverCallback(c, d)
    \/ \E h \in Slots : AnswerFails(h)
    \/ \E h \in Slots : HandleCallback(h)

SpecCallbacks == InitCallbacks /\ [][NextCallbacks]_vars

(***************************************************************************)
(* RecordStore: user settings                                              *)
(***************************************************************************)
update_user_timezone(us, user_id, tz) ==
    IF user_id \notin 1..Len(us) THEN us
    ELSE [us EXCEPT ![user_id].tz = tz]

update_user_evening_time(us, user_id, hour, minute) ==
    IF user_id \notin 1..Len(us) THEN us
    ELSE [us EXCEPT ![user_id].evening_hour = hour, ![user_id].evening_min = minute]

\* hour and minute are Optional[int], None being <<>>; None is stored as -1.
update_user_morning_time(us, user_id, hour, minute) ==
    IF user_id \notin 1..Len(us) THEN us
    ELSE [us EXCEPT ![user_id].morning_hour = IF hour # <<>> THEN hour[1] ELSE -1,
                    ![user_id].morning_min = IF minute # <<>> THEN minute[1] ELSE -1]

(***************************************************************************)
(* TaskScheduler: the job store of the running APScheduler keeps one job   *)
(* per id; a bag makes a second job under the same id representable.       *)
(***************************************************************************)
evening_job_id(user_id) == <<"evening", user_id>>
morning_job_id(user_id) == <<"morning", user_id>>

get_job(js, job_id) == {j \in BagToSet(js) : j.id = job_id}

remove_job(js, job_id) ==
    [j \in {k \in BagToSet(js) : k.id # job_id} |-> js[j]]

\* add_job(..., replace_existing=True)
add_job(js, job) == remove_job(js, job.id) (+) SetToBag({job})

\* _remove_user_jobs that forgets the morning job.
remove_user_jobs_evening_only(js, user_id) ==
    IF get_job(js, evening_job_id(user_id)) # {}
    THEN remove_job(js, evening_job_id(user_id))
    ELSE js

remove_user_jobs(js, user_id) ==
    LET js1 == IF get_job(js, evening_job_id(user_id)) # {}
               THEN remove_job(js, evening_job_id(user_id))
               ELSE js
    IN  IF get_job(js1, morning_job_id(user_id)) # {}
        THEN remove_job(js1, morning_job_id(user_id))
        ELSE js1

schedule_evening_job(js, user) ==
    add_job(js, [id |-> evening_job_id(user.id), func |-> "_evening_routine",
                 args |-> <<user.id>>, hour |-> user.evening_hour,
                 minute |-> user.evening_min, tz |-> user.tz])

schedule_morning_job(js, user) ==
    add_job(js, [id |-> morning_job_id(user.id), func |-> "_morning_checklist",
                 args |-> <<user.id>>, hour |-> user.morning_hour,
                 minute |-> user.morning_min, tz |-> user.tz])

\* rebuild_user_jobs that adds the jobs to whatever the store holds.
rebuild_user_jobs_append(js, user) ==
    js (+) SetToBag({[id |-> evening_job_id(user.id), func |-> "_evening_routine",
                      args |-> <<user.id>>, hour |-> user.evening_hour,
                      minute |-> user.evening_min, tz |-> user.tz]})
       (+) (IF user.morning_hour >= 0
            THEN SetToBag({[id |-> morning_job_id(user.id), func |-> "_morning_checklist",
                            args |-> <<user.id>>, hour |-> user.morning_hour,
                            minute |-> user.morning_min, tz |-> user.tz]})
            ELSE EmptyBag)

\* morning_hour is never None in a stored row: disabled is stored as -1.
rebuild_user_jobs(js, user) ==
    LET js1 == schedule_evening_job(remove_user_jobs(js, user.id), user)
    IN  IF user.morning_hour >= 0 THEN schedule_morning_job(js1, user) ELSE js1

\* rebuild_all_jobs that stops after the first user.
rebuild_all_jobs_first_user(js, us) ==
    IF us = <<>> THEN js ELSE rebuild_user_jobs(js, us[1])

\* for user in get_all_users(): rebuild_user_jobs(user)
RECURSIVE rebuild_all_jobs(_, _)
rebuild_all_jobs(js, us) ==
    IF us = <<>> THEN js
    ELSE rebuild_all_jobs(rebuild_user_jobs(js, Head(us)), Tail(us))

\* bot_data without 'schedule_rebuild_callback': the commands skip the rebuild.
schedule_rebuild_callback_unregistered(js, user) == js

schedule_rebuild_callback(js, user) == rebuild_user_jobs(js, user)

(***************************************************************************)
(* The settings commands.  The dispatcher takes one update at a time       *)
(* (Application.builder() without concurrent_updates), so a command runs   *)
(* to its end before the next one starts; it is suspended once, at         *)
(* 'await update.message.reply_text(...)', between the write to the users  *)
(* table and the rebuild of the jobs.                                      *)
(***************************************************************************)
\* Arguments of /setevening and /setmorning: whether the text matches
\* ^(\d{1,2}):(\d{2})$ and, if so, the two numbers.
TimeArgs ==
    {[match |-> TRUE, hour |-> 0, minute |-> 15],
     [match |-> TRUE, hour |-> 24, minute |-> 0],
     [match |-> TRUE, hour |-> 7, minute |-> 60],
     [match |-> FALSE, hour |-> 0, minute |-> 0]}

\* Arguments of /setmorning: "off" (None) or a time argument.
MorningArgs == {<<>>} \cup {<<arg>> : arg \in TimeArgs}

\* The names pytz.timezone() accepts, among those the model uses.
ValidTimezones == {DEFAULT_TIMEZONE, "UTC"}

TimezoneArgs == {"UTC", "Mars/Phobos"}

\* The range check that looks at the hour only.
time_in_range_hour_only(arg) == ~(arg.hour < 0 \/ arg.hour > 23)

time_in_range(arg) ==
    ~(arg.hour < 0 \/ arg.hour > 23 \/ arg.minute < 0 \/ arg.minute > 59)

Suspended(cmd, chat_id, user) ==
    [pc |-> "reply", cmd |-> cmd, chat_id |-> chat_id, user |-> user]

NoUpdateInProgress == \A h \in Slots : handlers[h].pc = "idle"

\* The command returned before it changed anything (its reply is an error text).
Rejected(cmd) ==
    /\ last' = [op |-> "rejected"]
    /\ UNCHANGED <<users, handlers>>

\* The command wrote the users table and awaits the confirmation it sent.
Updated(cmd, chat_id, user, us) ==
    /\ users' = us
    /\ handlers' = [handlers EXCEPT ![1] = Suspended(cmd, chat_id, user)]
    /\ last' = [op |-> "updated"]

otherVarsSched == <<tasks, callbacks, presses, cblog, routine>>

InitSched ==
    /\ users = <<>>
    /\ tasks = <<>>
    /\ callbacks = <<>>
    /\ jobs = EmptyBag
    /\ phase = "boot"
    /\ handlers = [h \in 1..MaxHandlers |-> Idle]
    /\ presses = [c \in 1..MaxCallbacks |-> [data |-> <<>>, n |-> 0]]
    /\ cblog = [c \in 1..MaxCallbacks |-> <<>>]
    /\ routine = [pc |-> "none"]
    /\ last = [op |-> "init"]

\* main(): scheduler.start(); scheduler.rebuild_all_jobs(), before polling starts.
RebuildAllJobs ==
    /\ phase = "boot"
    /\ jobs' = rebuild_all_jobs(jobs, users)
    /\ phase' = "running"
    /\ last' = [op |-> "rebuild_all_jobs"]
    /\ UNCHANGED <<users, handlers, otherVarsSched>>

\* The process stops (scheduler.shutdown(); the job store is in memory) and
\* main() runs again on the same database.
Restart ==
    /\ phase = "running"
    /\ jobs' = EmptyBag
    /\ phase' = "boot"
    /\ handlers' = [h \in Slots |-> Idle]
    /\ last' = [op |-> "restart"]
    /\ UNCHANGED <<users, otherVarsSched>>

\* cmd_start up to 'await update.message.reply_text(message)'.  A chat that
\* has no user yet gets one while the table has room.
CmdStart(chat_id) ==
    /\ phase = "running" /\ NoUpdateInProgress
    /\ LET found == get_user_by_chat_id(users, chat_id)
           us == IF found # <<>> THEN users
                 ELSE create_user(users, chat_id, DEFAULT_TIMEZONE,
                                  DEFAULT_EVENING_HOUR, DEFAULT_EVENING_MINUTE,
                                  DEFAULT_MORNING_HOUR, DEFAULT_MORNING_MINUTE)
       IN  /\ Len(us) <= MaxUsers
           /\ Updated("start", chat_id, get_user_by_chat_id(us, chat_id)[1], us)
    /\ UNCHANGED <<jobs, phase, otherVarsSched>>

\* cmd_setevening up to the await of its confirmation.
CmdSetEvening(chat_id, arg) ==
    /\ phase = "running" /\ NoUpdateInProgress
    /\ LET user == get_user_by_chat_id(users, chat_id)
       IN  IF user = <<>> \/ ~arg.match \/ ~time_in_range(arg)
           THEN Rejected("setevening")
           ELSE Updated("setevening", chat_id, user[1],
                        update_user_evening_time(users, user[1].id, arg.hour, arg.minute))
    /\ UNCHANGED <<jobs, phase, otherVarsSched>>

\* cmd_setmorning up to the await of its confirmation.
CmdSetMorning(chat_id, arg) ==
    /\ phase = "running" /\ NoUpdateInProgress
    /\ LET user == get_user_by_chat_id(users, chat_id)
       IN  IF user = <<>> THEN Rejected("setmorning")
           ELSE IF arg = <<>>
           THEN Updated("setmorning", chat_id, user[1],
                        update_user_morning_time(users, user[1].id, <<>>, <<>>))
           ELSE IF ~arg[1].match \/ ~time_in_range(arg[1]) THEN Rejected("setmorning")
           ELSE Updated("setmorning", chat_id, user[1],
                        update_user_morning_time(users, user[1].id,
                                                 <<arg[1].hour>>, <<arg[1].minute>>))
    /\ UNCHANGED <<jobs, phase, otherVarsSched>>

\* cmd_timezone up to the await of its confirmation.
CmdTimezone(chat_id, tz_name) ==
    /\ phase = "running" /\ NoUpdateInProgress
    /\ LET user == get_user_by_chat_id(users, chat_id)
       IN  IF user = <<>> \/ tz_name \notin ValidTimezones
           THEN Rejected("timezone")
           ELSE Updated("timezone", chat_id, user[1],
                        update_user_timezone(users, user[1].id, tz_name))
    /\ UNCHANGED <<jobs, phase, otherVarsSched>>

\* A settings command that rebuilds with the user object it read at its start.
rebuild_after_update_stale(js, us, chat_id, user) ==
    schedule_rebuild_callback(js, user)

\* user = self.db.get_user_by_chat_id(chat_id); schedule_rebuild_callback(user)
rebuild_after_update(js, us, chat_id, user) ==
    schedule_rebuild_callback(js, get_user_by_chat_id(us, chat_id)[1])

\* The rest of a command after its reply was sent: cmd_start rebuilds with the
\* user it holds, the settings commands read the user again.  A reply_text that
\* raises ends the command before its rebuild: that command has not completed,
\* and the states it leaves behind are not explored here.
RebuildAfterReply(h) ==
    /\ handlers[h].pc = "reply"
    /\ LET c == handlers[h]
       IN  /\ jobs' = IF c.cmd = "start"
                      THEN schedule_rebuild_callback(jobs, c.user)
                      ELSE rebuild_after_update(jobs, users, c.chat_id, c.user)
           /\ last' = [op |-> "rebuild_user_jobs", cmd |-> c.cmd, user |-> c.user.id,
                       had_evening |-> get_job(jobs, evening_job_id(c.user.id)) # {},
                       had_morning |-> get_job(jobs, morning_job_id(c.user.id)) # {}]
    /\ handlers' = [handlers EXCEPT ![h] = Idle]
    /\ UNCHANGED <<users, phase, otherVarsSched>>

NextSched ==
    \/ RebuildAllJobs
    \/ Restart
    \/ \E c \in Chats : CmdStart(c)
    \/ \E c \in Chats, arg \in TimeArgs : CmdSetEvening(c, arg)
    \/ \E c \in Chats, arg \in MorningArgs : CmdSetMorning(c, arg)
    \/ \E c \in Chats, tz \in TimezoneArgs : CmdTimezone(c, tz)
    \/ \E h \in Slots : RebuildAfterReply(h)

SpecSched == InitSched /\ [][NextSched]_vars

(***************************************************************************)
(* The clock.  The instant explored is 2025-11-30 18:00 UTC, where the     *)
(* two timezones of the model are on different local dates: it is still    *)
(* 2025-11-30 in UTC and already 2025-12-01 02:00 in Asia/Shanghai.        *)
(***************************************************************************)
UtcDate == [y |-> 2025, m |-> 11, d |-> 30]

\* datetime.now() of the server, whose clock is UTC, as a date
local_today_server(tz) == UtcDate

\* datetime.now(tz) as a date
local_today(tz) == IF tz = "Asia/Shanghai" THEN AddDays(UtcDate, 1) ELSE UtcDate

\* datetime.now(tz) - timedelta(days=1) as a date
local_yesterday(tz) == AddDays(local_today(tz), -1)

(***************************************************************************)
(* RecordStore: the tables a process finds when it starts.                 *)
(***************************************************************************)
\* The rows of users: each created by /start, possibly moved to another
\* timezone, with skipped_tonight as an earlier evening left it.
StoredUsers(skipped) ==
    UNION {{[i \in 1..n |->
                [id |-> i, chat_id |-> i, tz |-> tzs[i],
                 evening_hour |-> DEFAULT_EVENING_HOUR, evening_min |-> DEFAULT_EVENING_MINUTE,
                 morning_hour |-> DEFAULT_MORNING_HOUR, morning_min |-> DEFAULT_MORNING_MINUTE,
                 awaiting_plans |-> FALSE, skipped_tonight |-> skips[i]]] :
            tzs \in [1..n -> ValidTimezones], skips \in [1..n -> skipped]} : n \in 0..MaxUsers}

\* A row of tasks as update_task_status stamps it.
TaskRows(owners, dues, statuses) ==
    {[user_id |-> u, due_date |-> due, status |-> st,
      completed_at |-> IF st = STATUS_DONE THEN "set" ELSE "NULL",
      canceled_at |-> IF st = STATUS_CANCELED THEN "set" ELSE "NULL"] :
        u \in owners, due \in dues, st \in statuses}

StoredTasks(owners, dues, statuses) ==
    UNION {[1..k -> TaskRows(owners, dues, statuses)] : k \in 0..MaxStoredTasks}

\* The ids of a query's rows, in the order of ORDER BY id.
RECURSIVE OrderById(_)
OrderById(ids) ==
    IF ids = {} THEN <<>>
    ELSE LET least == CHOOSE i \in ids : \A j \in ids : i <= j
         IN  <<least>> \o OrderById(ids \ {least})

\* get_tasks_by_user_and_date without the status filter.
get_tasks_by_user_and_date_any_status(ts, user_id, due_date, statuses) ==
    OrderById({i \in 1..Len(ts) : ts[i].user_id = user_id /\ ts[i].due_date = due_date})

\* get_tasks_by_user_and_date that also returns the tasks due earlier.
get_tasks_by_user_up_to_date(ts, user_id, due_date, statuses) ==
    OrderById({i \in 1..Len(ts) :
                  /\ ts[i].user_id = user_id
                  /\ ymd2ord(ts[i].due_date) <= ymd2ord(due_date)
                  /\ statuses # {} => ts[i].status \in statuses})

\* The result lists task ids; an empty statuses list does not filter.
get_tasks_by_user_and_date(ts, user_id, due_date, statuses) ==
    OrderById({i \in 1..Len(ts) :
                  /\ ts[i].user_id = user_id
                  /\ ts[i].due_date = due_date
                  /\ statuses # {} => ts[i].status \in statuses})

(***************************************************************************)
(* Messages the scheduler sends: the chat, which text, the tasks the text  *)
(* lists (format_task_item of each) and the callback buttons attached.     *)
(***************************************************************************)
Message(chat_id, text, items, buttons) ==
    [chat_id |-> chat_id, text |-> text, items |-> items, buttons |-> buttons]

\* create_task_buttons: t:<id>:done, t:<id>:un, t:<id>:cancel
create_task_buttons(task_id) ==
    {<<"t", task_id, ACTION_DONE>>, <<"t", task_id, ACTION_UNDONE>>,
     <<"t", task_id, ACTION_CANCEL>>}

\* create_new_plan_buttons: new:add, new:skip
create_new_plan_buttons == {<<"new", "add">>, <<"new", "skip">>}

get_daily_review_header(is_makeup) ==
    IF is_makeup THEN "daily_review_makeup_header" ELSE "daily_review_header"

\* All the tasks of a review in one message without buttons.
send_task_messages_batch(chat_id, task_ids) ==
    IF task_ids = <<>> THEN <<>> ELSE <<Message(chat_id, "task_item", task_ids, {})>>

\* The messages _send_daily_review sends, in order.
RECURSIVE send_task_messages(_, _)
send_task_messages(chat_id, task_ids) ==
    IF task_ids = <<>> THEN <<>>
    ELSE <<Message(chat_id, "task_item", <<Head(task_ids)>>,
                   create_task_buttons(Head(task_ids)))>>
         \o send_task_messages(chat_id, Tail(task_ids))

send_daily_review(chat_id, task_ids, is_makeup) ==
    <<Message(chat_id, get_daily_review_header(is_makeup), <<>>, {})>>
    \o send_task_messages(chat_id, task_ids)

\* The messages send_makeup_review sends, in order.
send_makeup_review(us, ts, user_id) ==
    LET user == get_user_by_id(us, user_id)
    IN  IF user = <<>> THEN <<>>
        ELSE LET found == get_tasks_by_user_and_date(
                              ts, user[1].id, local_yesterday(user[1].tz),
                              {STATUS_PENDING, STATUS_MISSED})
             IN  IF found # <<>>
                 THEN send_daily_review(user[1].chat_id, found, TRUE)
                 ELSE <<>>

\* The sweep looking at the tasks due today, for comparison.
makeup_for_user_due_today(us, ts, user) ==
    IF get_tasks_by_user_and_date(ts, user.id, local_today(user.tz),
                                  {STATUS_PENDING, STATUS_MISSED}) # <<>>
    THEN send_makeup_review(us, ts, user.id)
    ELSE <<>>

\* One turn of the loop of check_and_send_makeup_reviews: the messages it
\* sends for this user when no send raises.
makeup_for_user(us, ts, user) ==
    IF get_tasks_by_user_and_date(ts, user.id, local_yesterday(user.tz),
                                  {STATUS_PENDING, STATUS_MISSED}) # <<>>
    THEN send_makeup_review(us, ts, user.id)
    ELSE <<>>

\* A sweep whose loop ends at the first exception.
next_user_after_abort(idx, n, raised) == IF raised THEN n + 1 ELSE idx + 1

\* The try/except inside the loop: the next user is taken whether or not
\* this one raised.
next_user_after(idx, n, raised) == idx + 1

(***************************************************************************)
(* Startup recovery: post_init runs check_and_send_makeup_reviews before   *)
(* polling starts, so no update handler runs during the sweep.  A          *)
(* send_message of the sweep either delivers or raises.                    *)
(***************************************************************************)
otherVarsRecovery == <<users, tasks, callbacks, jobs, handlers, presses, cblog>>

InitRecovery ==
    /\ users \in StoredUsers({FALSE})
    /\ tasks \in StoredTasks(1..Len(users), {local_yesterday(tz) : tz \in ValidTimezones},
                            {STATUS_PENDING, STATUS_MISSED, STATUS_DONE})
    /\ callbacks = <<>>
    /\ jobs = rebuild_all_jobs(EmptyBag, users)
    /\ phase = "post_init"
    /\ handlers = [h \in 1..MaxHandlers |-> Idle]
    /\ presses = [c \in 1..MaxCallbacks |-> [data |-> <<>>, n |-> 0]]
    /\ cblog = [c \in 1..MaxCallbacks |-> <<>>]
    /\ routine = [pc |-> "sweep", idx |-> 1, sent |-> <<>>, raised |-> {}]
    /\ last = [op |-> "init"]

\* One user of the sweep: of the messages due to the user the first k are
\* delivered; if k is not all of them, the next send raises.
SweepUser(k) ==
    /\ routine.pc = "sweep"
    /\ routine.idx <= Len(users)
    /\ LET user == users[routine.idx]
           msgs == makeup_for_user(users, tasks, user)
       IN  /\ k <= Len(msgs)
           /\ routine' = [routine EXCEPT
                  !.idx = next_user_after(routine.idx, Len(users), k < Len(msgs)),
                  !.sent = @ \o SubSeq(msgs, 1, k),
                  !.raised = IF k < Len(msgs) THEN @ \cup {user.id} ELSE @]
    /\ last' = [op |-> "sweep_user"]
    /\ UNCHANGED <<phase, otherVarsRecovery>>

\* The loop is over; run_polling goes on to start polling.
SweepDone ==
    /\ routine.pc = "sweep"
    /\ routine.idx > Len(users)
    /\ routine' = [pc |-> "none"]
    /\ phase' = "running"
    /\ last' = [op |-> "sweep_done", sent |-> routine.sent, raised |-> routine.raised]
    /\ UNCHANGED otherVarsRecovery

NextRecovery ==
    \/ \E k \in 0..(MaxStoredTasks + 1) : SweepUser(k)
    \/ SweepDone

SpecRecovery == InitRecovery /\ [][NextRecovery]_vars

(***************************************************************************)
(* The scheduled routines.  A job runs as a coroutine that is suspended at *)
(* every 'await self.bot.send_message(...)': routine.queue holds the       *)
(* messages it is still to send, the first of them being the one awaited.  *)
(***************************************************************************)
\* _evening_routine that leaves skipped_tonight as it finds it.
evening_begin_no_clear(us, ts, user_id) ==
    LET user == get_user_by_id(us, user_id)
    IN  IF user = <<>> THEN [found |-> FALSE, users |-> us, chat_id |-> 0, review |-> <<>>]
        ELSE LET tasks_today == get_tasks_by_user_and_date(
                                    ts, user[1].id, local_today(user[1].tz),
                                    {STATUS_PENDING, STATUS_MISSED})
             IN  [found |-> TRUE,
                  users |-> us,
                  chat_id |-> user[1].chat_id,
                  review |-> IF tasks_today # <<>>
                             THEN send_daily_review(user[1].chat_id, tasks_today, FALSE)
                             ELSE <<>>]

\* _evening_routine that also leaves the input mode, for comparison
evening_begin_resets_user(us, ts, user_id) ==
    LET user == get_user_by_id(us, user_id)
    IN  IF user = <<>> THEN [found |-> FALSE, users |-> us, chat_id |-> 0, review |-> <<>>]
        ELSE LET tasks_today == get_tasks_by_user_and_date(
                                    ts, user[1].id, local_today(user[1].tz),
                                    {STATUS_PENDING, STATUS_MISSED})
             IN  [found |-> TRUE,
                  users |-> set_user_awaiting_plans(
                                set_user_skipped_tonight(us, user[1].id, FALSE),
                                user[1].id, FALSE),
                  chat_id |-> user[1].chat_id,
                  review |-> IF tasks_today # <<>>
                             THEN send_daily_review(user[1].chat_id, tasks_today, FALSE)
                             ELSE <<>>]

\* _evening_routine up to its first await: the users table it leaves and the
\* review it goes on to send (empty when no task is found).
evening_begin(us, ts, user_id) ==
    LET user == get_user_by_id(us, user_id)
    IN  IF user = <<>> THEN [found |-> FALSE, users |-> us, chat_id |-> 0, review |-> <<>>]
        ELSE LET tasks_today == get_tasks_by_user_and_date(
                                    ts, user[1].id, local_today(user[1].tz),
                                    {STATUS_PENDING, STATUS_MISSED})
             IN  [found |-> TRUE,
                  users |-> set_user_skipped_tonight(us, user[1].id, FALSE),
                  chat_id |-> user[1].chat_id,
                  review |-> IF tasks_today # <<>>
                             THEN send_daily_review(user[1].chat_id, tasks_today, FALSE)
                             ELSE <<>>]

\* The prompt that is sent whatever skipped_tonight says.
new_plan_prompt_always(us, user_id, chat_id) ==
    <<Message(chat_id, "new_plan_prompt", <<>>, create_new_plan_buttons)>>

\* user = get_user_by_id(user_id); if user and not user.skipped_tonight:
\* _send_new_plan_prompt(chat_id)
new_plan_prompt(us, user_id, chat_id) ==
    LET user == get_user_by_id(us, user_id)
    IN  IF user # <<>> /\ ~user[1].skipped_tonight
        THEN <<Message(chat_id, "new_plan_prompt", <<>>, create_new_plan_buttons)>>
        ELSE <<>>

\* A checklist with one message per task.
morning_checklist_per_task(us, ts, user_id) ==
    LET user == get_user_by_id(us, user_id)
    IN  IF user = <<>> THEN <<>>
        ELSE send_task_messages(
                 user[1].chat_id,
                 get_tasks_by_user_and_date(ts, user[1].id, local_today(user[1].tz),
                                            {STATUS_PENDING, STATUS_MISSED}))

\* The messages _morning_checklist sends.
morning_checklist(us, ts, user_id) ==
    LET user == get_user_by_id(us, user_id)
    IN  IF user = <<>> THEN <<>>
        ELSE LET tasks_today == get_tasks_by_user_and_date(
                                    ts, user[1].id, local_today(user[1].tz),
                                    {STATUS_PENDING, STATUS_MISSED})
             IN  IF tasks_today = <<>> THEN <<>>
                 ELSE <<Message(user[1].chat_id, "morning_checklist", tasks_today, {})>>

\* The "skip for tonight" presses handled so far for the chat.
SkipsHandled(chat_id) ==
    Cardinality({ci \in {<<c, i>> : c \in CallbackIds, i \in 1..MaxDeliveries} :
                    /\ ci[2] <= Len(cblog[ci[1]])
                    /\ presses[ci[1]].data[1].prefix = "new"
                    /\ presses[ci[1]].data[1].chat_id = chat_id
                    /\ cblog[ci[1]][ci[2]].reply = "skipped"})

NoRoutine == [pc |-> "none"]

\* A routine that has returned, with what it sent and what it saw: the flag
\* before the clear, the flag at the re-read, and whether a skip was handled
\* between the two.
Returned(r) == [r EXCEPT !.pc = "returned", !.queue = <<>>]

\* The evening routine goes from its review to the prompt: it reads the user
\* again and either awaits the prompt or returns.
ToPrompt(r, us) ==
    LET prompt == new_plan_prompt(us, r.user, r.chat_id)
        seen == [r EXCEPT !.stage = "prompt",
                          !.reread = <<us[r.user].skipped_tonight>>,
                          !.skip_between = SkipsHandled(r.chat_id) > r.skips_at_clear]
    IN  IF prompt = <<>> THEN Returned(seen)
        ELSE [seen EXCEPT !.queue = prompt]

\* The scheduler fires evening_<u>; the job is installed and not running.
EveningRoutine(u) ==
    /\ phase = "running"
    /\ routine.pc \in {"none", "returned", "raised"}
    /\ get_job(jobs, evening_job_id(u)) # {}
    /\ LET b == evening_begin(users, tasks, u)
           r == [pc |-> "sending", job |-> "evening", user |-> u, chat_id |-> b.chat_id,
                 stage |-> "review", queue |-> b.review, sent |-> <<>>,
                 flag_before |-> users[u].skipped_tonight,
                 skips_at_clear |-> SkipsHandled(b.chat_id),
                 reread |-> <<>>, skip_between |-> FALSE]
       IN  /\ users' = b.users
           /\ routine' = IF b.review = <<>> THEN ToPrompt(r, b.users) ELSE r
    /\ UNCHANGED <<tasks, callbacks, jobs, phase, handlers, presses, cblog, last>>

\* The scheduler fires morning_<u>.
MorningChecklist(u) ==
    /\ phase = "running"
    /\ routine.pc \in {"none", "returned", "raised"}
    /\ get_job(jobs, morning_job_id(u)) # {}
    /\ LET msgs == morning_checklist(users, tasks, u)
           r == [pc |-> "sending", job |-> "morning", user |-> u,
                 chat_id |-> users[u].chat_id,
                 stage |-> "checklist", queue |-> msgs, sent |-> <<>>,
                 flag_before |-> users[u].skipped_tonight,
                 skips_at_clear |-> SkipsHandled(users[u].chat_id),
                 reread |-> <<>>, skip_between |-> FALSE]
       IN  routine' = IF msgs = <<>> THEN Returned(r) ELSE r
    /\ UNCHANGED <<users, tasks, callbacks, jobs, phase, handlers, presses, cblog, last>>

\* The awaited send_message returns and the routine runs to its next await
\* or to its end.
RoutineSent ==
    /\ routine.pc = "sending"
    /\ LET r == [routine EXCEPT !.sent = Append(@, Head(routine.queue)),
                                !.queue = Tail(@)]
       IN  routine' = IF r.queue # <<>> THEN r
                      ELSE IF r.stage = "review" THEN ToPrompt(r, users)
                      ELSE Returned(r)
    /\ UNCHANGED <<users, tasks, callbacks, jobs, phase, handlers, presses, cblog, last>>

\* The awaited send_message raises: the job ends with the exception.
RoutineSendRaises ==
    /\ routine.pc = "sending"
    /\ routine' = [routine EXCEPT !.pc = "raised"]
    /\ UNCHANGED <<users, tasks, callbacks, jobs, phase, handlers, presses, cblog, last>>

(***************************************************************************)
(* The routines over the tables a running process holds; the users of a    *)
(* table share one timezone.                                               *)
(***************************************************************************)
SameTimezone(us) == \A i, j \in 1..Len(us) : us[i].tz = us[j].tz

InitReview ==
    /\ users \in {us \in StoredUsers({FALSE}) : SameTimezone(us)}
    /\ tasks \in UNION {StoredTasks(1..Len(users), {local_today(tz), local_yesterday(tz)},
                                    {STATUS_PENDING, STATUS_MISSED,
                                     STATUS_DONE, STATUS_CANCELED}) :
                           tz \in {users[i].tz : i \in 1..Len(users)}}
    /\ callbacks = <<>>
    /\ jobs = rebuild_all_jobs(EmptyBag, users)
    /\ phase = "running"
    /\ handlers = [h \in 1..MaxHandlers |-> Idle]
    /\ presses = [c \in 1..MaxCallbacks |-> [data |-> <<>>, n |-> 0]]
    /\ cblog = [c \in 1..MaxCallbacks |-> <<>>]
    /\ routine = NoRoutine
    /\ last = [op |-> "init"]

NextReview ==
    \/ \E u \in 1..Len(users) : EveningRoutine(u)
    \/ \E u \in 1..Len(users) : MorningChecklist(u)
    \/ RoutineSent
    \/ RoutineSendRaises

SpecReview == InitReview /\ [][NextReview]_vars

(***************************************************************************)
(* The evening routine of a user while new-plan buttons are pressed: the   *)
(* table holds that user, with pending tasks due today or none, and the    *)
(* buttons of an earlier prompt are pressed, in the chat of the user and   *)
(* in a chat of no user, before the routine starts and while it is         *)
(* suspended in its review.                                                *)
(***************************************************************************)
InitPrompt ==
    /\ users \in {us \in StoredUsers(BOOLEAN) : Len(us) = 1}
    /\ tasks \in UNION {StoredTasks(1..Len(users), {local_today(tz)}, {STATUS_PENDING}) :
                           tz \in {users[i].tz : i \in 1..Len(users)}}
    /\ callbacks = <<>>
    /\ jobs = rebuild_all_jobs(EmptyBag, users)
    /\ phase = "running"
    /\ handlers = [h \in 1..MaxHandlers |-> Idle]
    /\ presses = [c \in 1..MaxCallbacks |-> [data |-> <<>>, n |-> 0]]
    /\ cblog = [c \in 1..MaxCallbacks |-> <<>>]
    /\ routine = NoRoutine
    /\ last = [op |-> "init"]

NextPrompt ==
    \/ \E u \in 1..Len(users) : EveningRoutine(u)
    \/ RoutineSent
    \/ RoutineSendRaises
    \/ \E c \in CallbackIds, d \in NewPlanCallbackData : DeliverCallback(c, d)
    \/ \E h \in Slots : HandleCallback(h)

SpecPrompt == InitPrompt /\ [][NextPrompt]_vars

(***************************************************************************)
(* DateParser (src/core/date_parser.py).  A text is a sequence of          *)
(* characters.  ASCII characters stand for themselves; the Chinese         *)
(* characters of the keyword tables are written by name:                   *)
(*   xia 下  zhou 周  xing 星  qi 期  li 礼  bai 拜                        *)
(*   yi 一  er 二  san 三  si 四  wu 五  liu 六  ri 日  tian 天            *)
(*   jin 今  ming 明  hou 后  yue 月  hao 号  mai 买  cai 菜               *)
(* A resolved date is the record [y, m, d] of the numbers the returned     *)
(* "YYYY-MM-DD" string is formatted from; an explicit date is returned as  *)
(* matched, without a calendar check.                                      *)
(***************************************************************************)
MaxFragments == 2
MaxRefDays == 7

Digits == {"0", "1", "2", "3", "4", "5", "6", "7", "8", "9"}

DigitValue(c) ==
    CASE c = "0" -> 0 [] c = "1" -> 1 [] c = "2" -> 2 [] c = "3" -> 3
      [] c = "4" -> 4 [] c = "5" -> 5 [] c = "6" -> 6 [] c = "7" -> 7
      [] c = "8" -> 8 [] c = "9" -> 9

\* int(s) of a string of decimal digits.
RECURSIVE int(_)
int(ds) ==
    IF ds = <<>> THEN 0
    ELSE int(SubSeq(ds, 1, Len(ds) - 1)) * 10 + DigitValue(ds[Len(ds)])

\* The character at position i, "" past either end of the text.
At(text, i) == IF i \in 1..Len(text) THEN text[i] ELSE ""

DigitsAt(text, i, n) == \A k \in 0..(n - 1) : At(text, i + k) \in Digits

RECURSIVE DigitRun(_, _)
DigitRun(text, i) == IF At(text, i) \in Digits THEN 1 + DigitRun(text, i + 1) ELSE 0

\* keyword in text
Contains(text, keyword) ==
    \E i \in 1..(Len(text) - Len(keyword) + 1) :
        SubSeq(text, i, i + Len(keyword) - 1) = keyword

\* The lengths a greedy \d{1,2} ... \d{1,2} tries, in the order it tries them.
GreedyLengths == <<<<2, 2>>, <<2, 1>>, <<1, 2>>, <<1, 1>>>>

\* (\d{4})-(\d{1,2})-(\d{1,2}) matching at position i with a month of a
\* digits and a day of b digits.
YearMonthDayAt(text, i, a, b) ==
    /\ DigitsAt(text, i, 4)
    /\ At(text, i + 4) = "-"
    /\ DigitsAt(text, i + 5, a)
    /\ At(text, i + 5 + a) = "-"
    /\ DigitsAt(text, i + 6 + a, b)

\* re.search(r'(\d{4})-(\d{1,2})-(\d{1,2})', text): <<>> without a match,
\* otherwise the groups of the leftmost match, each taken greedily.
search_year_month_day(text) ==
    LET hits == {i \in 1..Len(text) :
                    \E k \in 1..4 : YearMonthDayAt(text, i, GreedyLengths[k][1], GreedyLengths[k][2])}
    IN  IF hits = {} THEN <<>>
        ELSE LET i == CHOOSE j \in hits : \A h \in hits : j <= h
                 k == CHOOSE n \in 1..4 :
                        /\ YearMonthDayAt(text, i, GreedyLengths[n][1], GreedyLengths[n][2])
                        /\ \A n2 \in 1..(n - 1) :
                              ~YearMonthDayAt(text, i, GreedyLengths[n2][1], GreedyLengths[n2][2])
                 a == GreedyLengths[k][1]
                 b == GreedyLengths[k][2]
             IN  <<[year  |-> SubSeq(text, i, i + 3),
                    month |-> SubSeq(text, i + 5, i + 4 + a),
                    day   |-> SubSeq(text, i + 6 + a, i + 5 + a + b)]>>

\* (\d{1,2})SEP(\d{1,2}) matching at position i, followed by (?!\d) when
\* not_before_digit.
MonthDayAt(text, i, sep, not_before_digit, a, b) ==
    /\ DigitsAt(text, i, a)
    /\ At(text, i + a) = sep
    /\ DigitsAt(text, i + a + 1, b)
    /\ not_before_digit => At(text, i + a + 1 + b) \notin Digits

\* re.search(r'(\d{1,2})SEP(\d{1,2})', text), with the lookahead (?!\d) of
\* the MM-DD pattern when not_before_digit.
search_month_day(text, sep, not_before_digit) ==
    LET hits == {i \in 1..Len(text) :
                    \E k \in 1..4 : MonthDayAt(text, i, sep, not_before_digit,
                                               GreedyLengths[k][1], GreedyLengths[k][2])}
    IN  IF hits = {} THEN <<>>
        ELSE LET i == CHOOSE j \in hits : \A h \in hits : j <= h
                 k == CHOOSE n \in 1..4 :
                        /\ MonthDayAt(text, i, sep, not_before_digit,
                                      GreedyLengths[n][1], GreedyLengths[n][2])
                        /\ \A n2 \in 1..(n - 1) :
                              ~MonthDayAt(text, i, sep, not_before_digit,
                                          GreedyLengths[n2][1], GreedyLengths[n2][2])
                 a == GreedyLengths[k][1]
                 b == GreedyLengths[k][2]
             IN  <<[month |-> SubSeq(text, i, i + a - 1),
                    day   |-> SubSeq(text, i + a + 1, i + a + b)]>>

\* \+(\d+)SUFFIX with re.IGNORECASE matching at position i: the digits are
\* the whole run after the sign, since the suffix is not a digit.
OffsetAt(text, i, suffix) ==
    /\ At(text, i) = "+"
    /\ DigitRun(text, i + 1) >= 1
    /\ At(text, i + 1 + DigitRun(text, i + 1)) \in suffix

\* re.search(r'\+(\d+)d', text, re.IGNORECASE) and its +Nw twin: <<>> or
\* group 1 of the leftmost match.
search_offset(text, suffix) ==
    LET hits == {i \in 1..Len(text) : OffsetAt(text, i, suffix)}
    IN  IF hits = {} THEN <<>>
        ELSE LET i == CHOOSE j \in hits : \A h \in hits : j <= h
             IN  <<SubSeq(text, i + 1, i + DigitRun(text, i + 1))>>

DATE_KEYWORD_TODAY == <<<<"jin", "tian">>, <<"jin", "ri">>>>
DATE_KEYWORD_TOMORROW == <<<<"ming", "tian">>, <<"ming", "ri">>>>
DATE_KEYWORD_DAY_AFTER_TOMORROW == <<<<"hou", "tian">>>>

WeekdayNames == <<"yi", "er", "san", "si", "wu", "liu", "ri", "tian">>

\* The dict WEEKDAY_KEYWORDS in its insertion order, which is the order the
\* loops of parse_date visit it in.
WEEKDAY_KEYWORDS ==
    [n \in 1..24 |->
        LET name == WeekdayNames[((n - 1) \div 3) + 1]
            form == (n - 1) % 3
        IN  [keyword |-> CASE form = 0 -> <<"zhou", name>>
                           [] form = 1 -> <<"xing", "qi", name>>
                           [] form = 2 -> <<"li", "bai", name>>,
             weekday |-> IF (n - 1) \div 3 = 7 THEN 6 ELSE (n - 1) \div 3]]

\* date.weekday(): Monday is 0.
weekday(dt) == (ymd2ord(dt) + 6) % 7

get_next_weekday_or_today(today, target_weekday) ==
    LET days_ahead == target_weekday - weekday(today)
    IN  AddDays(today, IF days_ahead < 0 THEN days_ahead + 7 ELSE days_ahead)

get_next_weekday(today, target_weekday) ==
    LET days_ahead == target_weekday - weekday(today)
    IN  AddDays(today, IF days_ahead <= 0 THEN days_ahead + 7 ELSE days_ahead)

get_next_week_weekday_after_seven(today, target_weekday) ==
    get_next_weekday(AddDays(today, 7), target_weekday)

get_next_week_weekday(today, target_weekday) ==
    LET days_ahead == (7 - weekday(today)) + target_weekday
    IN  AddDays(today, days_ahead)

\* The keyword's last character after "下周", "下星期" or "下礼拜".
NextWeekForms(keyword) ==
    LET c == keyword[Len(keyword)]
    IN  {<<"xia", "zhou", c>>, <<"xia", "xing", "qi", c>>, <<"xia", "li", "bai", c>>}

\* The first of the entries hits of WEEKDAY_KEYWORDS in dict order: <<>> or
\* its weekday.
FirstKeyword(hits) ==
    IF hits = {} THEN <<>>
    ELSE <<WEEKDAY_KEYWORDS[CHOOSE j \in hits : \A h \in hits : j <= h].weekday>>

\* The entries of WEEKDAY_KEYWORDS whose next-week form is in the text.
NextWeekKeywords(text) ==
    {n \in 1..Len(WEEKDAY_KEYWORDS) :
        \E f \in NextWeekForms(WEEKDAY_KEYWORDS[n].keyword) : Contains(text, f)}

\* The entries of WEEKDAY_KEYWORDS that are in the text.
BareKeywords(text) ==
    {n \in 1..Len(WEEKDAY_KEYWORDS) : Contains(text, WEEKDAY_KEYWORDS[n].keyword)}

AnyKeyword(text, keywords) == \E n \in 1..Len(keywords) : Contains(text, keywords[n])

explicit_date(year, m) == [y |-> year, m |-> int(m.month), d |-> int(m.day)]

\* Priority 5 and 6 of parse_date.
relative_day_default_today(text, today) ==
    IF AnyKeyword(text, DATE_KEYWORD_TODAY) THEN today
    ELSE IF AnyKeyword(text, DATE_KEYWORD_TOMORROW) THEN AddDays(today, 1)
    ELSE IF AnyKeyword(text, DATE_KEYWORD_DAY_AFTER_TOMORROW) THEN AddDays(today, 2)
    ELSE today

relative_day(text, today) ==
    IF AnyKeyword(text, DATE_KEYWORD_TODAY) THEN today
    ELSE IF AnyKeyword(text, DATE_KEYWORD_TOMORROW) THEN AddDays(today, 1)
    ELSE IF AnyKeyword(text, DATE_KEYWORD_DAY_AFTER_TOMORROW) THEN AddDays(today, 2)
    ELSE AddDays(today, 1)

\* Priority 3 and below.
weekday_rules_bare_first(text, today) ==
    LET next_week == FirstKeyword(NextWeekKeywords(text))
        bare == FirstKeyword(BareKeywords(text))
    IN  IF bare # <<>> THEN get_next_weekday(today, bare[1])
        ELSE IF next_week # <<>> THEN get_next_week_weekday(today, next_week[1])
        ELSE relative_day(text, today)

weekday_rules(text, today) ==
    LET next_week == FirstKeyword(NextWeekKeywords(text))
        bare == FirstKeyword(BareKeywords(text))
    IN  IF next_week # <<>> THEN get_next_week_weekday(today, next_week[1])
        ELSE IF bare # <<>> THEN get_next_weekday(today, bare[1])
        ELSE relative_day(text, today)

\* Priority 2 and below.
offset_rules(text, today) ==
    LET days == search_offset(text, {"d", "D"})
        weeks == search_offset(text, {"w", "W"})
    IN  IF days # <<>> THEN AddDays(today, int(days[1]))
        ELSE IF weeks # <<>> THEN AddDays(today, 7 * int(weeks[1]))
        ELSE weekday_rules(text, today)

\* DateParser.parse_date(text) with get_today() = today: the resolved date.
parse_date(text, today) ==
    LET ymd == search_year_month_day(text)
        dash == search_month_day(text, "-", TRUE)
        slash == search_month_day(text, "/", FALSE)
        dot == search_month_day(text, ".", FALSE)
    IN  IF ymd # <<>> THEN explicit_date(int(ymd[1].year), ymd[1])
        ELSE IF dash # <<>> THEN explicit_date(today.y, dash[1])
        ELSE IF slash # <<>> THEN explicit_date(today.y, slash[1])
        ELSE IF dot # <<>> THEN explicit_date(today.y, dot[1])
        ELSE offset_rules(text, today)

(***************************************************************************)
(* The resolver applied to bounded inputs.  A text is up to MaxFragments   *)
(* fragments written one after the other; the reference day is one of      *)
(* MaxRefDays consecutive days from Saturday 2025-11-08, the day the unit  *)
(* tests fix, or the last day of that year.  The two weekday helpers are   *)
(* also called on their own, as the unit tests call them.                  *)
(***************************************************************************)
Fragments ==
    { <<"2", "0", "2", "5", "-", "1", "2", "-", "2", "5">>,
      <<"1", "3", "-", "4", "5">>,
      <<"1", "/", "5">>,
      <<"1", "1", ".", "1", "5">>,
      <<"+", "3", "d">>,
      <<"+", "1", "W">>,
      <<"xia", "li", "bai", "wu">>,
      <<"zhou", "yi">>,
      <<"xing", "qi", "liu">>,
      <<"jin", "tian">>,
      <<"ming", "tian">>,
      <<"hou", "tian">>,
      <<"1", "1", "yue", "5", "ri">>,
      <<" ", "mai", "cai">> }

RECURSIVE Texts(_)
Texts(n) ==
    IF n = 0 THEN {<<>>}
    ELSE Texts(n - 1) \cup {t \o f : t \in Texts(n - 1), f \in Fragments}

ReferenceStart == [y |-> 2025, m |-> 11, d |-> 8]

YearEnd == [y |-> 2025, m |-> 12, d |-> 31]

ReferenceDays == {AddDays(ReferenceStart, k) : k \in 0..(MaxRefDays - 1)} \cup {YearEnd}

otherVarsResolver == <<users, tasks, callbacks, jobs, phase, handlers, presses, cblog, routine>>

InitResolver ==
    /\ users = <<>>
    /\ tasks = <<>>
    /\ callbacks = <<>>
    /\ jobs = EmptyBag
    /\ phase = "running"
    /\ handlers = [h \in 1..MaxHandlers |-> Idle]
    /\ presses = [c \in 1..MaxCallbacks |-> [data |-> <<>>, n |-> 0]]
    /\ cblog = [c \in 1..MaxCallbacks |-> <<>>]
    /\ routine = NoRoutine
    /\ last \in [op : {"input"}, text : Texts(MaxFragments) \ {<<>>}, today : ReferenceDays]

ParseDate ==
    /\ last.op = "input"
    /\ last' = [op |-> "parse_date", text |-> last.text, today |-> last.today,
                result |-> parse_date(last.text, last.today)]
    /\ UNCHANGED otherVarsResolver

GetNextWeekday(target_weekday) ==
    /\ last.op = "input"
    /\ last' = [op |-> "_get_next_weekday", today |-> last.today, target |-> target_weekday,
                result |-> get_next_weekday(last.today, target_weekday)]
    /\ UNCHANGED otherVarsResolver

GetNextWeekWeekday(target_weekday) ==
    /\ last.op = "input"
    /\ last' = [op |-> "_get_next_week_weekday", today |-> last.today, target |-> target_weekday,
                result |-> get_next_week_weekday(last.today, target_weekday)]
    /\ UNCHANGED otherVarsResolver

NextResolver ==
    \/ ParseDate
    \/ \E t \in 0..6 : GetNextWeekday(t)
    \/ \E t \in 0..6 : GetNextWeekWeekday(t)

SpecResolver == InitResolver /\ [][NextResolver]_vars

(***************************************************************************)
(* Ingestion (BotHandlers.cmd_add, handle_text_message).  /add puts the    *)
(* user in input mode; the next text message is split into lines, each     *)
(* line is resolved by parse_date against today in the user's timezone and *)
(* stored as a pending task with the date parse_date returned, and the     *)
(* input mode ends.  Both handlers reach their only await, the reply,      *)
(* after their last store call, so each is one step.  The tasks can then   *)
(* be postponed, up to MaxHorizon days past a date a line can resolve to.  *)
(***************************************************************************)
IngestLines ==
    { <<"1", "3", "-", "4", "5">>,
      <<"2", "0", "2", "5", "-", "1", "2", "-", "2", "5">>,
      <<"+", "3", "d">>,
      <<" ", "mai", "cai">> }

\* update.message.text after strip().split('\n'), blank lines dropped: one
\* to MaxStoredTasks lines.
TextMessages == UNION {[1..n -> IngestLines] : n \in 1..MaxStoredTasks}

\* The loop of handle_text_message over lines[k..]: one create_task per line.
RECURSIVE create_tasks_from(_, _, _, _)
create_tasks_from(ts, user, lines, k) ==
    IF k > Len(lines) THEN ts
    ELSE create_tasks_from(
            create_task(ts, user.id, parse_date(lines[k], local_today(user.tz))),
            user, lines, k + 1)

\* handle_text_message that stays in input mode.
handle_text_message_keep_mode(db, chat_id, lines) ==
    LET user == get_user_by_chat_id(db.users, chat_id)
    IN  IF user = <<>> \/ ~user[1].awaiting_plans THEN Result(db, "none")
        ELSE Result([db EXCEPT !.tasks = create_tasks_from(@, user[1], lines, 1)], "receipt")

\* handle_text_message: the database it leaves and what it replies.
handle_text_message(db, chat_id, lines) ==
    LET user == get_user_by_chat_id(db.users, chat_id)
    IN  IF user = <<>> \/ ~user[1].awaiting_plans THEN Result(db, "none")
        ELSE Result([db EXCEPT !.tasks = create_tasks_from(@, user[1], lines, 1),
                               !.users = set_user_awaiting_plans(@, user[1].id, FALSE)],
                    "receipt")

\* cmd_add
cmd_add(db, chat_id) ==
    LET user == get_user_by_chat_id(db.users, chat_id)
    IN  IF user = <<>> THEN Result(db, "start_first")
        ELSE Result([db EXCEPT !.users = set_user_awaiting_plans(@, user[1].id, TRUE)],
                    "input_mode")

\* The dates a line of the model can resolve to.
IngestedDues == {parse_date(l, local_today(tz)) : l \in IngestLines, tz \in ValidTimezones}

NearIngestedDue(dt) ==
    \E d \in {x \in IngestedDues : strptime_ok(x)} :
        ymd2ord(dt) - ymd2ord(d) \in 0..MaxHorizon

otherVarsIngest == <<callbacks, jobs, phase, handlers, presses, cblog, routine>>

InitIngest ==
    /\ users \in {us \in StoredUsers({FALSE}) : Len(us) = 1}
    /\ tasks = <<>>
    /\ callbacks = <<>>
    /\ jobs = rebuild_all_jobs(EmptyBag, users)
    /\ phase = "running"
    /\ handlers = [h \in 1..MaxHandlers |-> Idle]
    /\ presses = [c \in 1..MaxCallbacks |-> [data |-> <<>>, n |-> 0]]
    /\ cblog = [c \in 1..MaxCallbacks |-> <<>>]
    /\ routine = NoRoutine
    /\ last = [op |-> "init"]

CmdAdd(chat_id) ==
    LET r == cmd_add([users |-> users, tasks |-> tasks], chat_id)
    IN  /\ users' = r.db.users
        /\ last' = [op |-> "cmd_add", chat_id |-> chat_id, reply |-> r.reply]
        /\ UNCHANGED <<tasks, otherVarsIngest>>

HandleTextMessage(chat_id, lines) ==
    LET r == handle_text_message([users |-> users, tasks |-> tasks], chat_id, lines)
    IN  /\ Len(tasks) + Len(lines) <= MaxStoredTasks
        /\ users' = r.db.users
        /\ tasks' = r.db.tasks
        /\ last' = [op |-> "text", chat_id |-> chat_id, lines |-> Len(lines), reply |-> r.reply,
                    awaiting |-> \E i \in 1..Len(users) :
                                    users[i].chat_id = chat_id /\ users[i].awaiting_plans,
                    stored |-> Len(tasks)]
        /\ UNCHANGED otherVarsIngest

PostponeIngested(t, days) ==
    LET r == postpone_task(tasks, t, days)
    IN  /\ t \in 1..Len(tasks)
        /\ r.ret # <<>> => NearIngestedDue(r.ret[1])
        /\ tasks' = r.tasks
        /\ last' = [op |-> "postpone_task", task |-> t, days |-> days, ret |-> r.ret]
        /\ UNCHANGED <<users, otherVarsIngest>>

NextIngest ==
    \/ \E c \in Chats : CmdAdd(c)
    \/ \E c \in Chats, lines \in TextMessages : HandleTextMessage(c, lines)
    \/ \E t \in 1..MaxStoredTasks, days \in PostponeDays : PostponeIngested(t, days)

SpecIngest == InitIngest /\ [][NextIngest]_vars

(***************************************************************************)
(* Handling one callback query over a store whose calls can fail.  Every   *)
(* Database method wraps its session in try/except SQLAlchemyError: a call *)
(* that fails leaves its table as it was and returns False.  The failing   *)
(* calls of one handling are the set `failing` of method names; at most    *)
(* one call fails per handling.  A failing get_task_by_id returns None and *)
(* is the case of a task reference that does not exist.  Beside the        *)
(* database and the reply, each operation yields the calls it made on the  *)
(* store and on TaskStateMachine, in order.                                *)
(***************************************************************************)
StoreCalls ==
    {"is_callback_processed", "mark_callback_processed", "update_task_status",
     "update_task_due_date", "set_user_awaiting_plans", "set_user_skipped_tonight"}

Faults == {{}} \cup {{c} : c \in StoreCalls}

\* The table a store write leaves: unchanged if the call fails.
Written(failing, call, before, after) == IF call \in failing THEN before ELSE after

Traced(ret, ts, calls) == [ret |-> ret, tasks |-> ts, calls |-> calls]

faulty_mark_as_done(ts, task_id, failing) ==
    LET task == get_task_by_id(ts, task_id)
    IN  IF task = <<>> THEN Traced(FALSE, ts, <<"mark_as_done">>)
        ELSE IF task[1].status = STATUS_DONE THEN Traced(FALSE, ts, <<"mark_as_done">>)
        ELSE Traced(TRUE,
                    Written(failing, "update_task_status", ts,
                            update_task_status(ts, task_id, STATUS_DONE)),
                    <<"mark_as_done", "update_task_status">>)

faulty_mark_as_canceled(ts, task_id, failing) ==
    LET task == get_task_by_id(ts, task_id)
    IN  IF task = <<>> THEN Traced(FALSE, ts, <<"mark_as_canceled">>)
        ELSE IF task[1].status = STATUS_CANCELED THEN Traced(FALSE, ts, <<"mark_as_canceled">>)
        ELSE Traced(TRUE,
                    Written(failing, "update_task_status", ts,
                            update_task_status(ts, task_id, STATUS_CANCELED)),
                    <<"mark_as_canceled", "update_task_status">>)

faulty_postpone_task(ts, task_id, days, failing) ==
    LET task == get_task_by_id(ts, task_id)
    IN  IF task = <<>> THEN Traced(<<>>, ts, <<"postpone_task">>)
        ELSE IF ~strptime_ok(task[1].due_date) THEN Traced(<<>>, ts, <<"postpone_task">>)
        ELSE LET new_due == AddDays(task[1].due_date, days)
                 ts1 == Written(failing, "update_task_due_date", ts,
                                update_task_due_date(ts, task_id, new_due))
             IN  IF task[1].status # STATUS_PENDING
                 THEN Traced(<<new_due>>,
                             Written(failing, "update_task_status", ts1,
                                     update_task_status(ts1, task_id, STATUS_PENDING)),
                             <<"postpone_task", "update_task_due_date", "update_task_status">>)
                 ELSE Traced(<<new_due>>, ts1, <<"postpone_task", "update_task_due_date">>)

\* mark_callback_processed inserting a second row for an identifier that
\* has one.
faulty_mark_callback_processed_no_unique(cbs, callback_id, task_id, action, days, failing) ==
    Written(failing, "mark_callback_processed", cbs,
            Append(cbs, [callback_id |-> callback_id, task_id |-> task_id,
                         action |-> action, days |-> days]))

faulty_mark_callback_processed(cbs, callback_id, task_id, action, days, failing) ==
    Written(failing, "mark_callback_processed", cbs,
            mark_callback_processed(cbs, callback_id, task_id, action, days))

TracedResult(db, reply, calls) == [db |-> db, reply |-> reply, calls |-> calls]

\* The branch recording the callback whether or not the call succeeded.
AfterMutation_always_recorded(db, r, ok, callback_id, task_id, action, days, failing, accepted, refused) ==
    TracedResult([db EXCEPT !.tasks = r.tasks,
                            !.callbacks = faulty_mark_callback_processed(
                                 @, callback_id, task_id, action, days, failing)],
                 IF ok THEN accepted ELSE refused,
                 r.calls \o <<"mark_callback_processed">>)

\* The branch of _handle_task_callback after a TaskStateMachine call r: on
\* success the callback is recorded and `accepted` is replied, otherwise
\* `refused`.
AfterMutation(db, r, ok, callback_id, task_id, action, days, failing, accepted, refused) ==
    IF ok
    THEN TracedResult([db EXCEPT !.tasks = r.tasks,
                                 !.callbacks = faulty_mark_callback_processed(
                                      @, callback_id, task_id, action, days, failing)],
                      accepted, r.calls \o <<"mark_callback_processed">>)
    ELSE TracedResult([db EXCEPT !.tasks = r.tasks], refused, r.calls)

faulty_handle_task_callback(db, callback_id, data, failing) ==
    IF data.parse = "bad_id" THEN TracedResult(db, "invalid", <<>>)
    ELSE
    LET task_id == data.task_id
        task == get_task_by_id(db.tasks, task_id)
    IN  IF task = <<>> THEN TracedResult(db, "task_not_found", <<>>)
        ELSE IF data.action = ACTION_DONE THEN
            LET r == faulty_mark_as_done(db.tasks, task_id, failing)
            IN  AfterMutation(db, r, r.ret, callback_id, task_id, ACTION_DONE, 0, failing,
                              "task_done", "already_processed")
        ELSE IF data.action = ACTION_UNDONE THEN
            TracedResult([db EXCEPT !.callbacks = faulty_mark_callback_processed(
                                        @, callback_id, task_id, ACTION_UNDONE, 0, failing)],
                         "postpone_prompt", <<"mark_callback_processed">>)
        ELSE IF data.action = ACTION_CANCEL THEN
            LET r == faulty_mark_as_canceled(db.tasks, task_id, failing)
            IN  AfterMutation(db, r, r.ret, callback_id, task_id, ACTION_CANCEL, 0, failing,
                              "task_canceled", "already_processed")
        ELSE IF data.action = "p" THEN
            IF data.parse = "bad_days" THEN TracedResult(db, "invalid", <<>>)
            ELSE
            LET r == faulty_postpone_task(db.tasks, task_id, data.days, failing)
            IN  AfterMutation(db, r, r.ret # <<>>, callback_id, task_id, ACTION_POSTPONE,
                              data.days, failing, "postponed", "postpone_failed")
        ELSE TracedResult(db, "none", <<>>)

faulty_handle_new_plan_callback(db, callback_id, data, failing) ==
    LET user == get_user_by_chat_id(db.users, data.chat_id)
    IN  IF user = <<>> THEN TracedResult(db, "user_not_found", <<>>)
        ELSE IF data.action = "add" THEN
            TracedResult(
                [db EXCEPT !.callbacks = faulty_mark_callback_processed(
                                            @, callback_id, 0, "new_add", 0, failing),
                           !.users = Written(failing, "set_user_awaiting_plans", @,
                                             set_user_awaiting_plans(@, user[1].id, TRUE))],
                "input_mode", <<"mark_callback_processed", "set_user_awaiting_plans">>)
        ELSE IF data.action = "skip" THEN
            TracedResult(
                [db EXCEPT !.callbacks = faulty_mark_callback_processed(
                                            @, callback_id, 0, "new_skip", 0, failing),
                           !.users = Written(failing, "set_user_skipped_tonight", @,
                                             set_user_skipped_tonight(@, user[1].id, TRUE))],
                "skipped", <<"mark_callback_processed", "set_user_skipped_tonight">>)
        ELSE TracedResult(db, "none", <<>>)

\* A failing is_callback_processed returns False.
faulty_handle_callback_query(db, callback_id, data, failing) ==
    LET r == IF data.prefix = "t"
                THEN faulty_handle_task_callback(db, callback_id, data, failing)
             ELSE IF data.prefix = "new"
                THEN faulty_handle_new_plan_callback(db, callback_id, data, failing)
             ELSE TracedResult(db, "none", <<>>)
    IN  IF "is_callback_processed" \notin failing
           /\ is_callback_processed(db.callbacks, callback_id)
        THEN TracedResult(db, "already_processed", <<"is_callback_processed">>)
        ELSE [r EXCEPT !.calls = <<"is_callback_processed">> \o @]

(***************************************************************************)
(* One callback query handled from the tables a running process can hold:  *)
(* up to MaxTasks tasks of any status, each callback identifier recorded   *)
(* or not.  The dispatcher takes one update at a time and the handler      *)
(* runs from its duplicate check to its reply without suspension.          *)
(***************************************************************************)
\* The callbacks table: the identifiers of ids, each recorded for an
\* accepted "not done" press on task 1.
StoredCallbacks ==
    {OrderById(ids) : ids \in SUBSET CallbackIds}

CallbackRows(ids) ==
    [i \in 1..Len(ids) |-> [callback_id |-> ids[i], task_id |-> 1,
                            action |-> ACTION_UNDONE, days |-> 0]]

otherVarsFaults == <<jobs, phase, handlers, presses, cblog, routine>>

InitFaults ==
    /\ users = OneDefaultUser
    /\ tasks \in UNION {[1..k -> TaskRows({1}, DueInputs,
                                          {STATUS_PENDING, STATUS_DONE, STATUS_CANCELED,
                                           STATUS_MISSED})] : k \in 0..MaxTasks}
    /\ callbacks \in {CallbackRows(ids) : ids \in StoredCallbacks}
    /\ jobs = rebuild_all_jobs(EmptyBag, users)
    /\ phase = "running"
    /\ handlers = [h \in 1..MaxHandlers |-> Idle]
    /\ presses = [c \in 1..MaxCallbacks |-> [data |-> <<>>, n |-> 0]]
    /\ cblog = [c \in 1..MaxCallbacks |-> <<>>]
    /\ routine = NoRoutine
    /\ last = [op |-> "init"]

HandleCallbackQuery(c, d, failing) ==
    /\ last.op = "init"
    /\ LET db == [users |-> users, tasks |-> tasks, callbacks |-> callbacks]
           r == faulty_handle_callback_query(db, c, d, failing)
       IN  /\ users' = r.db.users
           /\ tasks' = r.db.tasks
           /\ callbacks' = r.db.callbacks
           /\ last' = [op |-> "callback", cb |-> c, data |-> d, failing |-> failing,
                       pre |-> db, reply |-> r.reply, calls |-> r.calls]
    /\ UNCHANGED otherVarsFaults

NextFaults ==
    \E c \in CallbackIds, d \in TaskCallbackData \cup NewPlanCallbackData, failing \in Faults :
        HandleCallbackQuery(c, d, failing)

SpecFaults == InitFaults /\ [][NextFaults]_vars

(***************************************************************************)
(* Startup over a stored users table.  /timezone stores a name only after  *)
(* pytz.timezone accepted it, but the table outlives the process and the   *)
(* time zone database it was checked against: a stored name can be one     *)
(* that the pytz of the starting process does not hold.                    *)
(***************************************************************************)
\* A zone of older tz databases that later releases dropped.
RemovedTimezone == "US/Pacific-New"

\* pytz.timezone(name) returns; otherwise it raises UnknownTimeZoneError.
pytz_timezone_ok(name) == name \in ValidTimezones

StartupUsers ==
    UNION {{[i \in 1..n |->
                [id |-> i, chat_id |-> i, tz |-> tzs[i],
                 evening_hour |-> evs[i], evening_min |-> DEFAULT_EVENING_MINUTE,
                 morning_hour |-> mos[i], morning_min |-> DEFAULT_MORNING_MINUTE,
                 awaiting_plans |-> FALSE, skipped_tonight |-> FALSE]] :
            tzs \in [1..n -> ValidTimezones \cup {RemovedTimezone}],
            evs \in [1..n -> {DEFAULT_EVENING_HOUR, 21}],
            mos \in [1..n -> {DEFAULT_MORNING_HOUR, -1}]} : n \in 0..MaxUsers}

\* rebuild_all_jobs where _schedule_evening_job can raise: the loop has no
\* try/except, so the first user whose zone is unknown ends it, after that
\* user's old jobs were removed.
RECURSIVE rebuild_all_jobs_raising(_, _)
rebuild_all_jobs_raising(js, us) ==
    IF us = <<>> THEN [jobs |-> js, raised |-> FALSE]
    ELSE IF ~pytz_timezone_ok(Head(us).tz)
    THEN [jobs |-> remove_user_jobs(js, Head(us).id), raised |-> TRUE]
    ELSE rebuild_all_jobs_raising(rebuild_user_jobs(js, Head(us)), Tail(us))

otherVarsStartup == <<users, tasks, callbacks, handlers, presses, cblog, routine>>

InitStartup ==
    /\ users \in StartupUsers
    /\ tasks = <<>>
    /\ callbacks = <<>>
    /\ jobs = EmptyBag
    /\ phase = "boot"
    /\ handlers = [h \in 1..MaxHandlers |-> Idle]
    /\ presses = [c \in 1..MaxCallbacks |-> [data |-> <<>>, n |-> 0]]
    /\ cblog = [c \in 1..MaxCallbacks |-> <<>>]
    /\ routine = NoRoutine
    /\ last = [op |-> "init"]

\* main() step 11: scheduler.start(); scheduler.rebuild_all_jobs(); any
\* exception is logged and answered with sys.exit(1).
StartScheduler ==
    /\ phase = "boot"
    /\ LET r == rebuild_all_jobs_raising(jobs, users)
       IN  /\ jobs' = r.jobs
           /\ phase' = IF r.raised THEN "exited" ELSE "running"
           /\ last' = [op |-> "start_scheduler", raised |-> r.raised]
    /\ UNCHANGED otherVarsStartup

NextStartup == StartScheduler

SpecStartup == InitStartup /\ [][NextStartup]_vars

(***************************************************************************)
(* The evening routine of one user over consecutive evenings, counted in   *)
(* last.firings, while the buttons of a prompt are pressed.  The stored    *)
(* flag starts unset, so a flag found set by a later firing was set by a   *)
(* skip accepted since the firing before it cleared the flag.              *)
(***************************************************************************)
MaxEvenings == 2

InitNightly ==
    /\ users = OneDefaultUser
    /\ tasks \in StoredTasks({1}, {local_today(DEFAULT_TIMEZONE)}, {STATUS_PENDING})
    /\ callbacks = <<>>
    /\ jobs = rebuild_all_jobs(EmptyBag, users)
    /\ phase = "running"
    /\ handlers = [h \in 1..MaxHandlers |-> Idle]
    /\ presses = [c \in 1..MaxCallbacks |-> [data |-> <<>>, n |-> 0]]
    /\ cblog = [c \in 1..MaxCallbacks |-> <<>>]
    /\ routine = NoRoutine
    /\ last = [op |-> "init", firings |-> 0]

\* The scheduler fires evening_<u> once more; the job is installed and not
\* running.
NightlyRoutine(u) ==
    /\ phase = "running"
    /\ routine.pc \in {"none", "returned", "raised"}
    /\ get_job(jobs, evening_job_id(u)) # {}
    /\ last.firings < MaxEvenings
    /\ LET b == evening_begin(users, tasks, u)
           r == [pc |-> "sending", job |-> "evening", user |-> u, chat_id |-> b.chat_id,
                 stage |-> "review", queue |-> b.review, sent |-> <<>>,
                 flag_before |-> users[u].skipped_tonight,
                 skips_at_clear |-> SkipsHandled(b.chat_id),
                 reread |-> <<>>, skip_between |-> FALSE]
       IN  /\ users' = b.users
           /\ routine' = IF b.review = <<>> THEN ToPrompt(r, b.users) ELSE r
    /\ last' = [op |-> "evening", firings |-> last.firings + 1]
    /\ UNCHANGED <<tasks, callbacks, jobs, phase, handlers, presses, cblog>>

NextNightly ==
    \/ \E u \in 1..Len(users) : NightlyRoutine(u)
    \/ RoutineSent
    \/ RoutineSendRaises
    \/ \E c \in CallbackIds, d \in NewPlanCallbackData : DeliverCallback(c, d)
    \/ \E h \in Slots : HandleCallback(h)

SpecNightly == InitNightly /\ [][NextNightly]_vars

(***************************************************************************)
(* A settings command while the evening routine of the same user is in     *)
(* flight.  The routine is a coroutine the scheduler started; it is        *)
(* suspended at 'await self.bot.send_message(...)' (the store calls are    *)
(* synchronous), and that is where a command handler runs.  remove_job     *)
(* and add_job change the job store and leave a running coroutine alone.   *)
(* One firing is explored, with commands before, during and after it.      *)
(***************************************************************************)
\* What the routine has sent and has still to send: its review, then the
\* prompt.
RoutineTotal(r) ==
    Len(r.sent) + Len(r.queue) + (IF r.pc = "sending" /\ r.stage = "review" THEN 1 ELSE 0)

InitRebuild ==
    /\ users = OneDefaultUser
    /\ tasks \in StoredTasks({1}, {local_today(DEFAULT_TIMEZONE)}, {STATUS_PENDING})
    /\ callbacks = <<>>
    /\ jobs = rebuild_all_jobs(EmptyBag, users)
    /\ phase = "running"
    /\ handlers = [h \in 1..MaxHandlers |-> Idle]
    /\ presses = [c \in 1..MaxCallbacks |-> [data |-> <<>>, n |-> 0]]
    /\ cblog = [c \in 1..MaxCallbacks |-> <<>>]
    /\ routine = NoRoutine
    /\ last = [op |-> "init"]

\* The rest of a settings command after its reply was sent, with the state
\* of the routine it runs beside.
RebuildUserJobs(h) ==
    /\ handlers[h].pc = "reply"
    /\ LET c == handlers[h]
       IN  /\ jobs' = rebuild_after_update(jobs, users, c.chat_id, c.user)
           /\ last' = [op |-> "rebuild_user_jobs", cmd |-> c.cmd, user |-> c.user.id,
                       in_flight |-> routine.pc = "sending" /\ routine.user = c.user.id,
                       total |-> IF routine.pc = "sending" THEN RoutineTotal(routine) ELSE 0]
    /\ handlers' = [handlers EXCEPT ![h] = Idle]
    /\ UNCHANGED <<users, phase, otherVarsSched>>

NextRebuild ==
    \/ \E u \in 1..Len(users) : routine.pc = "none" /\ EveningRoutine(u)
    \/ RoutineSent
    \/ RoutineSendRaises
    \/ \E c \in Chats, arg \in TimeArgs : CmdSetEvening(c, arg)
    \/ \E c \in Chats, arg \in MorningArgs : CmdSetMorning(c, arg)
    \/ \E c \in Chats, tz \in TimezoneArgs : CmdTimezone(c, tz)
    \/ \E h \in Slots : RebuildUserJobs(h)

SpecRebuild == InitRebuild /\ [][NextRebuild]_vars

(***************************************************************************)
(* Input mode.  Users enter it with /add or with the "add" button of the   *)
(* new-plan prompt and send text messages, in any order.  The button       *)
(* handler makes its store calls between 'await query.answer()' and its    *)
(* reply, so it is one step as well.                                       *)
(***************************************************************************)
\* Two users, each created by /start.
TwoDefaultUsers ==
    create_user(OneDefaultUser, 2, DEFAULT_TIMEZONE, DEFAULT_EVENING_HOUR,
                DEFAULT_EVENING_MINUTE, DEFAULT_MORNING_HOUR, DEFAULT_MORNING_MINUTE)

\* Messages of one to MaxStoredTasks lines without a date.
InputMessages == {[i \in 1..n |-> <<" ", "mai", "cai">>] : n \in 1..MaxStoredTasks}

InitInputMode ==
    /\ users = TwoDefaultUsers
    /\ tasks = <<>>
    /\ callbacks = <<>>
    /\ jobs = rebuild_all_jobs(EmptyBag, users)
    /\ phase = "running"
    /\ handlers = [h \in 1..MaxHandlers |-> Idle]
    /\ presses = [c \in 1..MaxCallbacks |-> [data |-> <<>>, n |-> 0]]
    /\ cblog = [c \in 1..MaxCallbacks |-> <<>>]
    /\ routine = NoRoutine
    /\ last = [op |-> "init"]

\* handle_callback_query for a button of the new-plan prompt.
PressNewPlan(c, d) ==
    LET r == handle_callback_query(
                 [users |-> users, tasks |-> tasks, callbacks |-> callbacks], c, d)
    IN  /\ users' = r.db.users
        /\ callbacks' = r.db.callbacks
        /\ last' = [op |-> "new_plan", chat_id |-> d.chat_id, reply |-> r.reply]
        /\ UNCHANGED <<tasks, jobs, phase, handlers, presses, cblog, routine>>

NextInputMode ==
    \/ \E c \in Chats : CmdAdd(c)
    \/ \E c \in CallbackIds, d \in NewPlanCallbackData : PressNewPlan(c, d)
    \/ \E c \in Chats, lines \in InputMessages : HandleTextMessage(c, lines)

SpecInputMode == InitInputMode /\ [][NextInputMode]_vars

(***************************************************************************)
(* The settings commands over a store whose update can fail:               *)
(* update_user_evening_time, update_user_morning_time and                  *)
(* update_user_timezone return False on SQLAlchemyError, and the command   *)
(* replies "update failed" and returns before its rebuild.                 *)
(***************************************************************************)
InitSettings ==
    /\ users = TwoDefaultUsers
    /\ tasks = <<>>
    /\ callbacks = <<>>
    /\ jobs = rebuild_all_jobs(EmptyBag, users)
    /\ phase = "running"
    /\ handlers = [h \in 1..MaxHandlers |-> Idle]
    /\ presses = [c \in 1..MaxCallbacks |-> [data |-> <<>>, n |-> 0]]
    /\ cblog = [c \in 1..MaxCallbacks |-> <<>>]
    /\ routine = NoRoutine
    /\ last = [op |-> "init"]

\* A settings command of a user, with arguments that pass its checks, whose
\* store update returns False.
UpdateFails(cmd, chat_id) ==
    /\ phase = "running" /\ NoUpdateInProgress
    /\ get_user_by_chat_id(users, chat_id) # <<>>
    /\ last' = [op |-> "update_failed", cmd |-> cmd]
    /\ UNCHANGED <<users, handlers, jobs, phase, otherVarsSched>>

NextSettings ==
    \/ \E c \in Chats, arg \in TimeArgs : CmdSetEvening(c, arg)
    \/ \E c \in Chats, arg \in MorningArgs : CmdSetMorning(c, arg)
    \/ \E c \in Chats, tz \in TimezoneArgs : CmdTimezone(c, tz)
    \/ \E c \in Chats, cmd \in {"setevening", "setmorning", "timezone"} : UpdateFails(cmd, c)
    \/ \E h \in Slots : RebuildAfterReply(h)

SpecSettings == InitSettings /\ [][NextSettings]_vars

(***************************************************************************)
(* One process from its recovery sweep on, over two users, the first in   *)
(* the default zone and the second in either zone, with pending tasks due  *)
(* on the three dates that are yesterday or today in either zone.  After   *)
(* the sweep the evening and morning jobs fire and /timezone moves users   *)
(* to UTC.                                                                 *)
(***************************************************************************)
InitZones ==
    /\ users \in {[TwoDefaultUsers EXCEPT ![2].tz = tz] : tz \in ValidTimezones}
    /\ tasks \in StoredTasks(1..Len(users),
                            {local_yesterday(tz) : tz \in ValidTimezones}
                                \cup {local_today(tz) : tz \in ValidTimezones},
                            {STATUS_PENDING})
    /\ callbacks = <<>>
    /\ jobs = rebuild_all_jobs(EmptyBag, users)
    /\ phase = "post_init"
    /\ handlers = [h \in 1..MaxHandlers |-> Idle]
    /\ presses = [c \in 1..MaxCallbacks |-> [data |-> <<>>, n |-> 0]]
    /\ cblog = [c \in 1..MaxCallbacks |-> <<>>]
    /\ routine = [pc |-> "sweep", idx |-> 1, sent |-> <<>>, raised |-> {}]
    /\ last = [op |-> "init"]

NextZones ==
    \/ \E k \in 0..(MaxStoredTasks + 1) : SweepUser(k)
    \/ SweepDone
    \/ \E u \in 1..Len(users) : EveningRoutine(u)
    \/ \E u \in 1..Len(users) : MorningChecklist(u)
    \/ RoutineSent
    \/ \E c \in Chats, tz \in TimezoneArgs : CmdTimezone(c, tz)
    \/ \E h \in Slots : RebuildAfterReply(h)

SpecZones == InitZones /\ [][NextZones]_vars

(***************************************************************************)
(* A process start to end.  main() starts the scheduler and installs the   *)
(* jobs (step 11) before it hands the sweep to post_init (step 12) and     *)
(* calls run_polling (step 14), which runs the event loop: first           *)
(* post_init, then polling.  The scheduler's timers live in that loop, so  *)
(* a job whose time arrives fires whenever the running coroutine is        *)
(* suspended, the sweep at 'await send_message' included.  The time of a   *)
(* trigger against the start of the process is not fixed by the code.      *)
(* last counts the sweeps of this start, and records whether every user    *)
(* had an evening job when the sweep began and whether a job fired while   *)
(* the sweep was running.                                                  *)
(***************************************************************************)
InitBoot ==
    /\ users \in StoredUsers({FALSE})
    /\ tasks \in StoredTasks(1..Len(users), {local_yesterday(tz) : tz \in ValidTimezones},
                            {STATUS_PENDING})
    /\ callbacks = <<>>
    /\ jobs = EmptyBag
    /\ phase = "boot"
    /\ handlers = [h \in 1..MaxHandlers |-> Idle]
    /\ presses = [c \in 1..MaxCallbacks |-> [data |-> <<>>, n |-> 0]]
    /\ cblog = [c \in 1..MaxCallbacks |-> <<>>]
    /\ routine = NoRoutine
    /\ last = [op |-> "init", sweeps |-> 0, installed |-> FALSE, fired_in_sweep |-> FALSE]

otherVarsBoot == <<tasks, callbacks, handlers, presses, cblog>>

\* main() step 11: scheduler.start(); scheduler.rebuild_all_jobs()
MainStartsScheduler ==
    /\ phase = "boot"
    /\ jobs' = rebuild_all_jobs(jobs, users)
    /\ phase' = "started"
    /\ last' = [last EXCEPT !.op = "rebuild_all_jobs"]
    /\ UNCHANGED <<users, routine, otherVarsBoot>>

\* main() steps 12 to 14: run_polling awaits post_init, which enters
\* check_and_send_makeup_reviews.
PostInit ==
    /\ phase = "started"
    /\ phase' = "post_init"
    /\ routine' = [pc |-> "sweep", idx |-> 1, sent |-> <<>>, raised |-> {}]
    /\ last' = [last EXCEPT !.op = "post_init", !.sweeps = @ + 1,
                            !.installed = \A i \in 1..Len(users) :
                                              get_job(jobs, evening_job_id(users[i].id)) # {}]
    /\ UNCHANGED <<users, jobs, otherVarsBoot>>

\* One turn of the loop of check_and_send_makeup_reviews, every send
\* delivered.
SweepTurn ==
    /\ routine.pc = "sweep"
    /\ routine.idx <= Len(users)
    /\ routine' = [routine EXCEPT
           !.idx = next_user_after(routine.idx, Len(users), FALSE),
           !.sent = @ \o makeup_for_user(users, tasks, users[routine.idx])]
    /\ last' = [last EXCEPT !.op = "sweep_user"]
    /\ UNCHANGED <<users, jobs, phase, otherVarsBoot>>

\* The loop is over, post_init returns and polling starts.
SweepEnds ==
    /\ routine.pc = "sweep"
    /\ routine.idx > Len(users)
    /\ routine' = NoRoutine
    /\ phase' = "running"
    /\ last' = [last EXCEPT !.op = "sweep_done"]
    /\ UNCHANGED <<users, jobs, otherVarsBoot>>

\* The time of evening_<u> arrives while the sweep is suspended at a send
\* (it has sent a message, so it has awaited): the scheduler starts
\* _evening_routine, which runs to its first await.
JobFiresInSweep(u) ==
    /\ phase = "post_init"
    /\ routine.pc = "sweep" /\ routine.sent # <<>>
    /\ get_job(jobs, evening_job_id(u)) # {}
    /\ users' = evening_begin(users, tasks, u).users
    /\ last' = [last EXCEPT !.op = "evening_routine", !.fired_in_sweep = TRUE]
    /\ UNCHANGED <<jobs, phase, routine, otherVarsBoot>>

\* The process stops and main() runs again on the same database.
ProcessRestarts ==
    /\ phase = "running"
    /\ routine.pc \in {"none", "returned"}
    /\ jobs' = EmptyBag
    /\ phase' = "boot"
    /\ routine' = NoRoutine
    /\ last' = [op |-> "init", sweeps |-> 0, installed |-> FALSE, fired_in_sweep |-> FALSE]
    /\ UNCHANGED <<users, otherVarsBoot>>

NextBoot ==
    \/ MainStartsScheduler
    \/ PostInit
    \/ SweepTurn
    \/ SweepEnds
    \/ \E u \in 1..Len(users) : JobFiresInSweep(u)
    \/ \E u \in 1..Len(users) : EveningRoutine(u)
    \/ RoutineSent
    \/ ProcessRestarts

SpecBoot == InitBoot /\ [][NextBoot]_vars

(***************************************************************************)
(* _send_daily_review step by step: the header, then the tasks in batches  *)
(* of MAX_TASKS_PER_MESSAGE, one message per task, and                     *)
(* asyncio.sleep(BATCH_SEND_DELAY) after a batch that is not the last.     *)
(* last holds the call: the task list, the loop variable i, the place in   *)
(* the batch, and the sends and sleeps awaited so far.                     *)
(***************************************************************************)
MAX_TASKS_PER_MESSAGE == 10

MaxReviewTasks == 25

\* if i + MAX_TASKS_PER_MESSAGE <= len(tasks), for comparison
delay_after_batch_inclusive(i, n) == i + MAX_TASKS_PER_MESSAGE <= n

\* if i + MAX_TASKS_PER_MESSAGE < len(tasks)
delay_after_batch(i, n) == i + MAX_TASKS_PER_MESSAGE < n

\* tasks[i:i + MAX_TASKS_PER_MESSAGE]
batch_of(task_ids, i) ==
    SubSeq(task_ids, i + 1,
           IF i + MAX_TASKS_PER_MESSAGE < Len(task_ids)
           THEN i + MAX_TASKS_PER_MESSAGE ELSE Len(task_ids))

Awaited(kind, task_id) == [kind |-> kind, task |-> task_id]

\* A table of n rows of one user, every row or every second row unresolved
\* and due today.
ReviewTables ==
    {[i \in 1..n |-> [user_id |-> 1, due_date |-> local_today(DEFAULT_TIMEZONE),
                      status |-> IF i % every = 0 THEN STATUS_PENDING ELSE STATUS_DONE,
                      completed_at |-> IF i % every = 0 THEN "NULL" ELSE "set",
                      canceled_at |-> "NULL"]] :
        n \in 0..MaxReviewTasks, every \in 1..2}

InitPacing ==
    /\ users = OneDefaultUser
    /\ tasks \in ReviewTables
    /\ callbacks = <<>>
    /\ jobs = EmptyBag
    /\ phase = "running"
    /\ handlers = [h \in 1..MaxHandlers |-> Idle]
    /\ presses = [c \in 1..MaxCallbacks |-> [data |-> <<>>, n |-> 0]]
    /\ cblog = [c \in 1..MaxCallbacks |-> <<>>]
    /\ routine = NoRoutine
    /\ last = [op |-> "_send_daily_review", pc |-> "header",
               tasks |-> get_tasks_by_user_and_date(
                             tasks, 1, local_today(DEFAULT_TIMEZONE),
                             {STATUS_PENDING, STATUS_MISSED}),
               i |-> 0, k |-> 0, awaited |-> <<>>]

otherVarsPacing == <<users, tasks, callbacks, jobs, phase, handlers, presses, cblog, routine>>

\* await self.bot.send_message(chat_id=chat_id, text=header)
SendHeader ==
    /\ last.pc = "header"
    /\ last' = [last EXCEPT
           !.awaited = Append(@, Awaited("header", 0)),
           !.pc = IF 0 < Len(last.tasks) THEN "batch" ELSE "done"]
    /\ UNCHANGED otherVarsPacing

\* One turn of 'for task in batch'.
SendTask ==
    /\ last.pc = "batch"
    /\ last.k < Len(batch_of(last.tasks, last.i))
    /\ last' = [last EXCEPT
           !.awaited = Append(@, Awaited("send", batch_of(last.tasks, last.i)[last.k + 1])),
           !.k = @ + 1]
    /\ UNCHANGED otherVarsPacing

\* The batch is sent: the delay if another batch follows, then the next
\* turn of 'for i in range(0, len(tasks), MAX_TASKS_PER_MESSAGE)'.
BatchSent ==
    /\ last.pc = "batch"
    /\ last.k = Len(batch_of(last.tasks, last.i))
    /\ last' = [last EXCEPT
           !.awaited = IF delay_after_batch(last.i, Len(last.tasks))
                       THEN Append(@, Awaited("sleep", 0)) ELSE @,
           !.i = @ + MAX_TASKS_PER_MESSAGE,
           !.k = 0,
           !.pc = IF last.i + MAX_TASKS_PER_MESSAGE < Len(last.tasks)
                  THEN "batch" ELSE "done"]
    /\ UNCHANGED otherVarsPacing

NextPacing ==
    \/ SendHeader
    \/ SendTask
    \/ BatchSent

SpecPacing == InitPacing /\ [][NextPacing]_vars

(***************************************************************************)
(* The notification routines beside the button handlers.  The sweep, the   *)
(* evening routine and the morning routine run over a database that the    *)
(* user's button presses change between their steps: a press is handled    *)
(* whole (handle_callback_query from its check to its last write).         *)
(***************************************************************************)
InitNotify ==
    /\ users \in {set_user_skipped_tonight(OneDefaultUser, 1, b) : b \in BOOLEAN}
    /\ tasks \in StoredTasks({1}, {local_today(DEFAULT_TIMEZONE),
                                   local_yesterday(DEFAULT_TIMEZONE)},
                            {STATUS_PENDING})
    /\ callbacks = <<>>
    /\ jobs = rebuild_all_jobs(EmptyBag, users)
    /\ phase = "post_init"
    /\ handlers = [h \in 1..MaxHandlers |-> Idle]
    /\ presses = [c \in 1..MaxCallbacks |-> [data |-> <<>>, n |-> 0]]
    /\ cblog = [c \in 1..MaxCallbacks |-> <<>>]
    /\ routine = [pc |-> "sweep", idx |-> 1, sent |-> <<>>, raised |-> {}]
    /\ last = [op |-> "init"]

\* Buttons of the messages the routines send: done and cancel of the first
\* stored task, and add and skip of the prompt.
NotifyButtons ==
    {Data("t", "ok", 1, a, 0, 1) : a \in {ACTION_DONE, ACTION_CANCEL}}
    \cup {Data("new", "ok", 0, a, 0, 1) : a \in {"add", "skip"}}

\* A button is pressed and handle_callback_query handles it.
PressButton(c, d) ==
    LET r == handle_callback_query(
                 [users |-> users, tasks |-> tasks, callbacks |-> callbacks], c, d)
    IN  /\ users' = r.db.users
        /\ tasks' = r.db.tasks
        /\ callbacks' = r.db.callbacks
        /\ last' = [op |-> "callback", reply |-> r.reply]
        /\ UNCHANGED <<jobs, phase, handlers, presses, cblog, routine>>

NextNotify ==
    \/ \E k \in 0..(MaxStoredTasks + 1) : SweepUser(k)
    \/ SweepDone
    \/ \E u \in 1..Len(users) : EveningRoutine(u)
    \/ \E u \in 1..Len(users) : MorningChecklist(u)
    \/ RoutineSent
    \/ RoutineSendRaises
    \/ \E c \in CallbackIds, d \in NotifyButtons : PressButton(c, d)

SpecNotify == InitNotify /\ [][NextNotify]_vars

(***************************************************************************)
(* Repeated postponement of one task.  Telegram gives every tap its own    *)
(* callback query id, so taps on the postpone buttons shown for the task   *)
(* (t:<id>:p:1 and t:<id>:p:2, create_postpone_buttons) arrive with ids    *)
(* that may be new or, on a redelivery, already recorded.  last keeps the  *)
(* table before the first tap and the days of the postpones accepted.      *)
(***************************************************************************)
MaxPresses == 3

\* Due dates before a month end, a leap day and a year end, and an
\* impossible one.
PostponeDues ==
    {IngestDate, [y |-> 2024, m |-> 2, d |-> 27], [y |-> 2025, m |-> 12, d |-> 30], BadDate}

InitPostpone ==
    /\ users = OneDefaultUser
    /\ tasks \in [1..1 -> TaskRows({1}, PostponeDues,
                                   {STATUS_PENDING, STATUS_DONE, STATUS_CANCELED,
                                    STATUS_MISSED})]
    /\ callbacks = <<>>
    /\ jobs = rebuild_all_jobs(EmptyBag, users)
    /\ phase = "running"
    /\ handlers = [h \in 1..MaxHandlers |-> Idle]
    /\ presses = [c \in 1..MaxCallbacks |-> [data |-> <<>>, n |-> 0]]
    /\ cblog = [c \in 1..MaxCallbacks |-> <<>>]
    /\ routine = NoRoutine
    /\ last = [op |-> "init", initial |-> tasks, applied |-> <<>>]

\* A tap on 'postpone +days' of task 1 arrives as callback query c and is
\* handled.
PressPostpone(c, days) ==
    LET db == [users |-> users, tasks |-> tasks, callbacks |-> callbacks]
        r == handle_callback_query(db, c, Data("t", "ok", 1, ACTION_POSTPONE, days, 1))
    IN  /\ users' = r.db.users
        /\ tasks' = r.db.tasks
        /\ callbacks' = r.db.callbacks
        /\ last' = [op |-> "postpone", initial |-> last.initial,
                    applied |-> IF r.reply = "postponed"
                                THEN Append(last.applied, days) ELSE last.applied,
                    fresh |-> ~is_callback_processed(callbacks, c),
                    due_before |-> tasks[1].due_date,
                    reply |-> r.reply]
        /\ UNCHANGED <<jobs, phase, handlers, presses, cblog, routine>>

NextPostpone == \E c \in 1..MaxPresses, days \in PostponeDays : PressPostpone(c, days)

SpecPostpone == InitPostpone /\ [][NextPostpone]_vars

(***************************************************************************)
(* Several starts of the process within one local day, on a database with  *)
(* unresolved tasks due from three days ago to tomorrow.  No table records *)
(* what a routine delivered, so whether the previous evening's routine     *)
(* delivered the tasks now due yesterday is a fact of the past the code    *)
(* cannot read: last.delivered_before holds it.  last counts the starts    *)
(* and the makeup reviews sent to the user.                                *)
(***************************************************************************)
MaxRestarts == 3

\* The due dates stored: three days before the server's date to one after.
WindowDues == {AddDays(UtcDate, k) : k \in (0 - 3)..1}

InitRestarts ==
    /\ users \in {update_user_timezone(OneDefaultUser, 1, tz) : tz \in ValidTimezones}
    /\ tasks \in StoredTasks({1}, WindowDues, {STATUS_PENDING, STATUS_MISSED})
    /\ callbacks = <<>>
    /\ jobs = rebuild_all_jobs(EmptyBag, users)
    /\ phase = "post_init"
    /\ handlers = [h \in 1..MaxHandlers |-> Idle]
    /\ presses = [c \in 1..MaxCallbacks |-> [data |-> <<>>, n |-> 0]]
    /\ cblog = [c \in 1..MaxCallbacks |-> <<>>]
    /\ routine = [pc |-> "sweep", idx |-> 1, sent |-> <<>>, raised |-> {}]
    /\ last \in [op : {"init"}, starts : {1}, makeups : {0}, delivered_before : BOOLEAN]

otherVarsRestarts == <<users, tasks, callbacks, handlers, presses, cblog>>

\* One turn of the loop of check_and_send_makeup_reviews, every send
\* delivered.
MakeupTurn ==
    /\ routine.pc = "sweep"
    /\ routine.idx <= Len(users)
    /\ LET msgs == makeup_for_user(users, tasks, users[routine.idx])
       IN  /\ routine' = [routine EXCEPT
                  !.idx = next_user_after(routine.idx, Len(users), FALSE),
                  !.sent = @ \o msgs]
           /\ last' = [last EXCEPT !.op = "sweep_user",
                                   !.makeups = IF msgs # <<>> THEN @ + 1 ELSE @]
    /\ UNCHANGED <<jobs, phase, otherVarsRestarts>>

\* The loop is over; the messages of the sweep stay in routine until a job
\* fires.
MakeupDone ==
    /\ routine.pc = "sweep"
    /\ routine.idx > Len(users)
    /\ routine' = [pc |-> "returned", job |-> "sweep", sent |-> routine.sent]
    /\ phase' = "running"
    /\ last' = [last EXCEPT !.op = "sweep_done"]
    /\ UNCHANGED <<jobs, otherVarsRestarts>>

\* The process is stopped and started again: main() up to post_init.
ProcessRestarted ==
    /\ phase = "running"
    /\ routine.pc \in {"none", "returned", "raised"}
    /\ last.starts < MaxRestarts
    /\ jobs' = rebuild_all_jobs(EmptyBag, users)
    /\ phase' = "post_init"
    /\ routine' = [pc |-> "sweep", idx |-> 1, sent |-> <<>>, raised |-> {}]
    /\ last' = [last EXCEPT !.op = "start", !.starts = @ + 1]
    /\ UNCHANGED otherVarsRestarts

NextRestarts ==
    \/ MakeupTurn
    \/ MakeupDone
    \/ ProcessRestarted
    \/ \E u \in 1..Len(users) : EveningRoutine(u)
    \/ \E u \in 1..Len(users) : MorningChecklist(u)
    \/ RoutineSent
    \/ RoutineSendRaises

SpecRestarts == InitRestarts /\ [][NextRestarts]_vars

(***************************************************************************)
(* The running system from an empty tasks table: the sweep of the start,   *)
(* the trigger routines, /add and the text that follows it, and the        *)
(* buttons.  Tasks enter the table by ingestion only.                      *)
(***************************************************************************)
\* The message sent in input mode: one line, a task for today.
SystemMessages == {<<<<"jin", "tian", "mai", "cai">>>>}

InitSystem ==
    /\ users = OneDefaultUser
    /\ tasks = <<>>
    /\ callbacks = <<>>
    /\ jobs = rebuild_all_jobs(EmptyBag, users)
    /\ phase = "post_init"
    /\ handlers = [h \in 1..MaxHandlers |-> Idle]
    /\ presses = [c \in 1..MaxCallbacks |-> [data |-> <<>>, n |-> 0]]
    /\ cblog = [c \in 1..MaxCallbacks |-> <<>>]
    /\ routine = [pc |-> "sweep", idx |-> 1, sent |-> <<>>, raised |-> {}]
    /\ last = [op |-> "init"]

\* Buttons of the first stored task (done, not done, cancel, postpone by a
\* day) and of the prompt (add, skip), pressed by the user.
SystemButtons ==
    {Data("t", "ok", 1, a, 0, 1) : a \in {ACTION_DONE, ACTION_UNDONE, ACTION_CANCEL}}
    \cup {Data("t", "ok", 1, ACTION_POSTPONE, 1, 1)}
    \cup {Data("new", "ok", 0, a, 0, 1) : a \in {"add", "skip"}}

NextSystem ==
    \/ \E k \in 0..(MaxStoredTasks + 1) : SweepUser(k)
    \/ SweepDone
    \/ \E u \in 1..Len(users) : EveningRoutine(u)
    \/ \E u \in 1..Len(users) : MorningChecklist(u)
    \/ RoutineSent
    \/ CmdAdd(1)
    \/ \E lines \in SystemMessages : HandleTextMessage(1, lines)
    \/ \E c \in CallbackIds, d \in SystemButtons : PressButton(c, d)

SpecSystem == InitSystem /\ [][NextSystem]_vars

(***************************************************************************)
(* Claims about TaskLifecycle, checked under SpecLifecycle.                *)
(***************************************************************************)
LifecycleOps == {"mark_as_done", "mark_as_canceled", "postpone_task", "mark_as_missed"}

\* The task the last operation was called on, as stored before the call.
PreTask == get_task_by_id(last.pre, last.task)

\* C1: once a task is done or canceled, no TaskLifecycle operation changes its
\* status or its due date.
C1_TerminalStatusIsFinal ==
    last.op \in LifecycleOps =>
        \A t \in 1..Len(last.pre) :
            last.pre[t].status \in {STATUS_DONE, STATUS_CANCELED} =>
                /\ tasks[t].status = last.pre[t].status
                /\ tasks[t].due_date = last.pre[t].due_date

\* C3: markDone on a task that is already done or does not exist, and
\* markCanceled on a task that is already canceled or does not exist, return
\* false and leave the table as it was.
C3_TerminalMarkIdempotent ==
    /\ (last.op = "mark_as_done"
          /\ (PreTask = <<>> \/ PreTask[1].status = STATUS_DONE))
        => (last.ret = FALSE /\ tasks = last.pre)
    /\ (last.op = "mark_as_canceled"
          /\ (PreTask = <<>> \/ PreTask[1].status = STATUS_CANCELED))
        => (last.ret = FALSE /\ tasks = last.pre)

\* A markDone repeated on the task it has just completed.
C3_Witness ==
    /\ last.op = "mark_as_done"
    /\ PreTask # <<>>
    /\ PreTask[1].status = STATUS_DONE
    /\ PreTask[1].completed_at = "set"
    /\ last.ret = FALSE

C5_PostponeFailsWithoutEffect ==
    (last.op = "postpone_task"
       /\ (PreTask = <<>> \/ ~strptime_ok(PreTask[1].due_date)))
        => (last.ret = <<>> /\ tasks = last.pre)

\* postpone refused on a resolved task whose stored due date is 2025-13-45.
C5_Witness ==
    /\ last.op = "postpone_task"
    /\ PreTask # <<>>
    /\ PreTask[1].due_date = BadDate
    /\ PreTask[1].status = STATUS_DONE
    /\ last.ret = <<>>

\* C6: markMissed on a pending task sets its status to missed, changing nothing
\* else, and returns true; on a missing task or a task that is done, canceled
\* or missed it returns false and changes nothing.
C6_MarkMissedOnlyFromPending ==
    last.op = "mark_as_missed" =>
        IF PreTask # <<>> /\ PreTask[1].status = STATUS_PENDING
        THEN /\ last.ret = TRUE
             /\ tasks = [last.pre EXCEPT ![last.task].status = STATUS_MISSED]
        ELSE /\ last.ret = FALSE
             /\ tasks = last.pre

\* markMissed refused on a task the user has already completed.
C6_Witness ==
    /\ last.op = "mark_as_missed"
    /\ PreTask # <<>>
    /\ PreTask[1].status = STATUS_DONE
    /\ last.ret = FALSE
    /\ tasks[last.task].status = STATUS_DONE

(***************************************************************************)
(* Claims about callback handling, checked under SpecCallbacks.            *)
(***************************************************************************)
TaskActions == {ACTION_DONE, ACTION_CANCEL, ACTION_POSTPONE}

\* The attempts that mutated a task, among those handled for interaction c.
Mutations(c) == {i \in 1..Len(cblog[c]) : cblog[c][i].mutated}

\* The first handled attempt of interaction c pressed done, cancel or postpone
\* on an unresolved task.
FirstPressApplies(c) ==
    /\ Len(cblog[c]) >= 1
    /\ presses[c].data[1].action \in TaskActions
    /\ cblog[c][1].unresolved

\* C2: among the handled attempts that carry one interaction identifier at
\* most one mutates a task; when the first of them presses done, cancel or
\* postpone on an unresolved task, it is the one that mutates, and every later
\* attempt, whatever the interleaving, mutates nothing and is answered
\* "already handled".
C2_OneMutationPerInteraction ==
    \A c \in CallbackIds :
        /\ Cardinality(Mutations(c)) <= 1
        /\ FirstPressApplies(c) =>
              /\ Mutations(c) = {1}
              /\ \A i \in 2..Len(cblog[c]) : cblog[c][i].reply = "already_processed"

\* C2 witness: a postpone press was delivered twice, the second delivery was
\* already in flight when the first was handled, the first postponed the task
\* and the second was answered "already handled".
C2_Witness ==
    \E c \in CallbackIds :
        /\ Len(cblog[c]) >= 2
        /\ FirstPressApplies(c)
        /\ presses[c].data[1].action = ACTION_POSTPONE
        /\ cblog[c][1].overlap
        /\ cblog[c][1].mutated
        /\ cblog[c][2].reply = "already_processed"

(***************************************************************************)
(* Claims about the scheduler, checked under SpecSched.                    *)
(***************************************************************************)
UserIds == 1..Len(users)

MorningDisabled(user) == user.morning_hour = -1

\* How many installed jobs carry the name job_id.
NameCount(job_id) == BagCardinality([j \in get_job(jobs, job_id) |-> jobs[j]])

\* The triggers the settings of a user call for.
Triggers(user) ==
    {[id |-> <<"evening", user.id>>, func |-> "_evening_routine", args |-> <<user.id>>,
      hour |-> user.evening_hour, minute |-> user.evening_min, tz |-> user.tz]}
    \cup (IF MorningDisabled(user) THEN {}
          ELSE {[id |-> <<"morning", user.id>>, func |-> "_morning_checklist",
                 args |-> <<user.id>>, hour |-> user.morning_hour,
                 minute |-> user.morning_min, tz |-> user.tz]})

\* The installed jobs that run for user u.
UserJobs(u) == {j \in BagToSet(jobs) : j.args = <<u>>}

OneEveningAndMorningIfEnabled(u) ==
    /\ NameCount(<<"evening", u>>) = 1
    /\ NameCount(<<"morning", u>>) = IF MorningDisabled(users[u]) THEN 0 ELSE 1

SettingsCommands == {"setevening", "setmorning", "timezone"}

\* C7: no trigger name is ever installed twice; after rebuild_user_jobs for a
\* user, a repeated one included, that user has exactly one evening trigger and
\* exactly one morning trigger if morning is enabled, none otherwise; after
\* rebuild_all_jobs so has every user.
C7_RebuildNeverDuplicates ==
    /\ \A u \in 1..MaxUsers :
          NameCount(<<"evening", u>>) <= 1 /\ NameCount(<<"morning", u>>) <= 1
    /\ last.op = "rebuild_user_jobs" => OneEveningAndMorningIfEnabled(last.user)
    /\ last.op = "rebuild_all_jobs" => \A u \in UserIds : OneEveningAndMorningIfEnabled(u)

\* C7 witness: with two users known, /start ran again for a user whose evening
\* and morning triggers were both installed, so rebuild_user_jobs ran for that
\* user a second time on unchanged settings.
C7_Witness ==
    /\ last.op = "rebuild_user_jobs" /\ last.cmd = "start"
    /\ last.had_evening /\ last.had_morning
    /\ Len(users) >= 2
    /\ ~MorningDisabled(users[last.user])
    /\ NameCount(<<"morning", last.user>>) = 1

\* C8: after rebuild_user_jobs for a user the morning trigger of that user is
\* installed exactly if the stored morning time is not disabled; when the
\* rebuild follows /setmorning off, the morning trigger is gone and the evening
\* trigger is installed.
C8_MorningTriggerIffEnabled ==
    last.op = "rebuild_user_jobs" =>
        /\ get_job(jobs, <<"morning", last.user>>) # {} <=> ~MorningDisabled(users[last.user])
        /\ (last.cmd = "setmorning" /\ MorningDisabled(users[last.user])) =>
              /\ get_job(jobs, <<"morning", last.user>>) = {}
              /\ get_job(jobs, <<"evening", last.user>>) # {}

\* C8 witness: /setmorning off completed for a user whose morning trigger was
\* installed; the morning trigger is gone, the evening trigger is there.
C8_Witness ==
    /\ last.op = "rebuild_user_jobs" /\ last.cmd = "setmorning"
    /\ last.had_morning
    /\ MorningDisabled(users[last.user])
    /\ get_job(jobs, <<"morning", last.user>>) = {}
    /\ get_job(jobs, <<"evening", last.user>>) # {}

\* C9: when /setevening, /setmorning or /timezone has completed, the installed
\* triggers of that user are exactly those the stored timezone and times call
\* for, each installed once.
C9_TriggersFollowConfiguration ==
    (last.op = "rebuild_user_jobs" /\ last.cmd \in SettingsCommands) =>
        /\ UserJobs(last.user) = Triggers(users[last.user])
        /\ \A j \in UserJobs(last.user) : CopiesIn(j, jobs) = 1

\* C9 witness: /timezone completed for a user who had already changed both
\* times; the triggers carry the new timezone and the changed times.
C9_Witness ==
    /\ last.op = "rebuild_user_jobs" /\ last.cmd = "timezone"
    /\ users[last.user].tz = "UTC"
    /\ users[last.user].evening_hour = 0
    /\ users[last.user].morning_hour = 0
    /\ \A j \in UserJobs(last.user) : j.tz = "UTC" /\ j.hour = 0
    /\ Cardinality(UserJobs(last.user)) = 2

\* C10: when rebuild_all_jobs has run at startup, the installed triggers are
\* exactly one evening trigger per stored user and one morning trigger per
\* user with morning enabled, with the stored timezone and times, and nothing
\* else.
C10_TriggersDerivedFromUsers ==
    last.op = "rebuild_all_jobs" =>
        /\ BagToSet(jobs) = UNION {Triggers(users[u]) : u \in UserIds}
        /\ \A j \in BagToSet(jobs) : CopiesIn(j, jobs) = 1

\* C10 witness: the process restarted with two users stored, one with morning
\* disabled and one with a changed timezone, and rebuild_all_jobs installed
\* their three triggers.
C10_Witness ==
    /\ last.op = "rebuild_all_jobs"
    /\ Len(users) >= 2
    /\ MorningDisabled(users[1])
    /\ users[2].tz = "UTC" /\ ~MorningDisabled(users[2])
    /\ Cardinality(BagToSet(jobs)) = 3

(***************************************************************************)
(* Claims about the startup recovery sweep, checked under SpecRecovery.    *)
(***************************************************************************)
\* The tasks of user u that are unresolved and due on u's local yesterday.
DueYesterday(u) ==
    {t \in 1..Len(tasks) :
        /\ tasks[t].user_id = u
        /\ tasks[t].due_date = AddDays(local_today(users[u].tz), -1)
        /\ tasks[t].status \in {STATUS_PENDING, STATUS_MISSED}}

\* The messages of a log that went to the chat of user u, in order.
SentTo(log, u) == SelectSeq(log, LAMBDA m : m.chat_id = users[u].chat_id)

\* A log holds one review of the tasks in due: one header of the given text,
\* first, then one message with the three task buttons for each task of due,
\* and nothing else.
IsReviewOf(log, header, due) ==
    /\ Len(log) = 1 + Cardinality(due)
    /\ log[1].text = header /\ log[1].buttons = {}
    /\ \A i \in 2..Len(log) :
          /\ log[i].text = "task_item"
          /\ Len(log[i].items) = 1 /\ log[i].items[1] \in due
          /\ log[i].buttons = {<<"t", log[i].items[1], a>> : a \in {"done", "un", "cancel"}}
    /\ \A t \in due : Cardinality({i \in 2..Len(log) : log[i].items = <<t>>}) = 1

\* C11: when the startup sweep is over, a user with no unresolved task due on
\* their local yesterday has received nothing from it, and, no send having
\* raised, a user with such tasks has received exactly one makeup review: one
\* makeup header followed by one interactive message per such task.
C11_OneMakeupReviewPerUserInNeed ==
    last.op = "sweep_done" =>
        \A u \in UserIds :
            /\ DueYesterday(u) = {} => SentTo(last.sent, u) = <<>>
            /\ (DueYesterday(u) # {} /\ last.raised = {}) =>
                  IsReviewOf(SentTo(last.sent, u), "daily_review_makeup_header",
                             DueYesterday(u))

\* C11 witness: a sweep without a failed send over two users in different
\* timezones; the first has a pending and a missed task due on their
\* yesterday and got the review, the second has none and got nothing.
C11_Witness ==
    /\ last.op = "sweep_done" /\ last.raised = {}
    /\ Len(users) >= 2
    /\ users[1].tz # users[2].tz
    /\ Cardinality(DueYesterday(1)) = 2
    /\ \E t \in DueYesterday(1) : tasks[t].status = STATUS_MISSED
    /\ \E t \in DueYesterday(1) : tasks[t].status = STATUS_PENDING
    /\ DueYesterday(2) = {}
    /\ Len(SentTo(last.sent, 1)) = 3
    /\ SentTo(last.sent, 2) = <<>>

\* C12: when the startup sweep is over, sends having raised for some users,
\* every user for whom none raised and who has unresolved tasks due on their
\* local yesterday has received their complete makeup review.
C12_SweepIsolatesUsers ==
    (last.op = "sweep_done" /\ last.raised # {}) =>
        \A u \in UserIds \ last.raised :
            DueYesterday(u) # {} =>
                IsReviewOf(SentTo(last.sent, u), "daily_review_makeup_header",
                           DueYesterday(u))

\* C12 witness: the send of the first user's makeup header raised, and the
\* second user, who has a task due yesterday, got the complete review.
C12_Witness ==
    /\ last.op = "sweep_done"
    /\ last.raised = {1}
    /\ SentTo(last.sent, 1) = <<>>
    /\ Len(users) >= 2
    /\ DueYesterday(2) # {}
    /\ Len(SentTo(last.sent, 2)) = 1 + Cardinality(DueYesterday(2))

(***************************************************************************)
(* Claims about the routines' messages, checked under SpecReview.          *)
(***************************************************************************)
\* The tasks of user u that are unresolved and due on u's local today.
DueToday(u) ==
    {t \in 1..Len(tasks) :
        /\ tasks[t].user_id = u
        /\ tasks[t].due_date = local_today(users[u].tz)
        /\ tasks[t].status \in {STATUS_PENDING, STATUS_MISSED}}

\* What a returned evening routine sent before its prompt.
ReviewSent == SelectSeq(routine.sent, LAMBDA m : m.text # "new_plan_prompt")

\* C14: an evening routine that has returned sent, to the chat of its user
\* only, nothing but a possible prompt when the user has no unresolved task
\* due today, and otherwise one review: the header followed by exactly one
\* three-button message for each unresolved task of the user due today, and
\* for no other task.
C14_EveningReviewOnePerDueTask ==
    (routine.pc = "returned" /\ routine.job = "evening") =>
        /\ \A i \in 1..Len(routine.sent) :
              routine.sent[i].chat_id = users[routine.user].chat_id
        /\ IF DueToday(routine.user) = {} THEN ReviewSent = <<>>
           ELSE IsReviewOf(ReviewSent, "daily_review_header", DueToday(routine.user))

\* C14 witness: the evening routine returned for a user with one unresolved
\* task due today, while another user has a pending task due the same day;
\* the review is the header and the one task message, and the prompt followed.
C14_Witness ==
    /\ routine.pc = "returned" /\ routine.job = "evening"
    /\ Cardinality(DueToday(routine.user)) = 1
    /\ \E t \in 1..Len(tasks) :
          /\ tasks[t].user_id # routine.user
          /\ tasks[t].status = STATUS_PENDING
          /\ tasks[t].due_date = local_today(users[routine.user].tz)
    /\ Len(ReviewSent) = 2
    /\ Len(routine.sent) = 3

\* C15: a morning checklist that has returned sent nothing when the user has
\* no unresolved task due today, and otherwise exactly one message, to the
\* user's chat, without buttons, listing exactly those tasks, each once.
C15_MorningChecklistOneMessage ==
    (routine.pc = "returned" /\ routine.job = "morning") =>
        IF DueToday(routine.user) = {} THEN routine.sent = <<>>
        ELSE /\ Len(routine.sent) = 1
             /\ routine.sent[1].chat_id = users[routine.user].chat_id
             /\ routine.sent[1].buttons = {}
             /\ Len(routine.sent[1].items) = Cardinality(DueToday(routine.user))
             /\ {routine.sent[1].items[i] : i \in 1..Len(routine.sent[1].items)}
                    = DueToday(routine.user)

\* C15 witness: the morning checklist returned for a user with two unresolved
\* tasks due today and one message listing both was sent.
C15_Witness ==
    /\ routine.pc = "returned" /\ routine.job = "morning"
    /\ Cardinality(DueToday(routine.user)) = 2
    /\ Len(routine.sent) = 1
    /\ Len(routine.sent[1].items) = 2

(***************************************************************************)
(* Claims about the new-plan prompt, checked under SpecPrompt.             *)
(***************************************************************************)
PromptSent == \E i \in 1..Len(routine.sent) : routine.sent[i].text = "new_plan_prompt"

\* C13: an evening routine that has returned cleared the skip flag, then read
\* it again, and sent the prompt exactly if the flag was unset at that read;
\* a skip handled between the clear and the read suppressed the prompt, and
\* without such a skip the prompt was sent, whatever the flag was before the
\* clear.
C13_PromptIffFlagUnsetAtReread ==
    (routine.pc = "returned" /\ routine.job = "evening") =>
        /\ routine.reread # <<>>
        /\ PromptSent <=> routine.reread = <<FALSE>>
        /\ routine.skip_between => ~PromptSent
        /\ ~routine.skip_between => PromptSent

\* C13 witness: the flag was unset before the clear, a skip press was handled
\* while the routine was sending its review, and the routine returned without
\* the prompt.
C13_Witness ==
    /\ routine.pc = "returned" /\ routine.job = "evening"
    /\ ~routine.flag_before
    /\ routine.skip_between
    /\ Len(routine.sent) >= 2
    /\ ~PromptSent

\* C13, the other case: a skip was handled before the routine began, the flag
\* was set at the clear, and the routine sent the prompt all the same.
C13_WitnessSkipBeforeClear ==
    /\ routine.pc = "returned" /\ routine.job = "evening"
    /\ routine.flag_before
    /\ routine.skips_at_clear >= 1
    /\ ~routine.skip_between
    /\ PromptSent

(***************************************************************************)
(* Claims about DateParser, checked under SpecResolver.                    *)
(***************************************************************************)
Parsed == last.op = "parse_date"

DaysAfter(today, result) == ymd2ord(result) - ymd2ord(today)

\* Every date an explicit-date pattern of the resolver matches somewhere in
\* the text, with the year it is given.
ExplicitCandidates(text, today) ==
    {[y |-> int(SubSeq(text, i, i + 3)),
      m |-> int(SubSeq(text, i + 5, i + 4 + a)),
      d |-> int(SubSeq(text, i + 6 + a, i + 5 + a + b))] :
        <<i, a, b>> \in {c \in (1..Len(text)) \X {1, 2} \X {1, 2} :
                            YearMonthDayAt(text, c[1], c[2], c[3])}}
    \cup
    {[y |-> today.y,
      m |-> int(SubSeq(text, c[1], c[1] + c[2] - 1)),
      d |-> int(SubSeq(text, c[1] + c[2] + 1, c[1] + c[2] + c[3]))] :
        c \in {c \in (1..Len(text)) \X {1, 2} \X {1, 2} :
                  \/ MonthDayAt(text, c[1], "-", TRUE, c[2], c[3])
                  \/ MonthDayAt(text, c[1], "/", FALSE, c[2], c[3])
                  \/ MonthDayAt(text, c[1], ".", FALSE, c[2], c[3])}}

\* Every date a +Nd or +Nw in the text stands for.
OffsetCandidates(text, today) ==
    {AddDays(today, int(SubSeq(text, i + 1, i + DigitRun(text, i + 1)))) :
        i \in {j \in 1..Len(text) : OffsetAt(text, j, {"d", "D"})}}
    \cup
    {AddDays(today, 7 * int(SubSeq(text, i + 1, i + DigitRun(text, i + 1)))) :
        i \in {j \in 1..Len(text) : OffsetAt(text, j, {"w", "W"})}}

\* Every date a next-week weekday expression in the text stands for.
NextWeekCandidates(text, today) ==
    {get_next_week_weekday(today, WEEKDAY_KEYWORDS[n].weekday) :
        n \in NextWeekKeywords(text)}

\* Every date a bare weekday keyword in the text stands for.
WeekdayCandidates(text, today) ==
    {get_next_weekday(today, WEEKDAY_KEYWORDS[n].weekday) :
        n \in BareKeywords(text)}

\* Every date a relative-day keyword in the text stands for.
RelativeCandidates(text, today) ==
    {AddDays(today, k) :
        k \in {j \in 0..2 : AnyKeyword(text, <<DATE_KEYWORD_TODAY, DATE_KEYWORD_TOMORROW,
                                                DATE_KEYWORD_DAY_AFTER_TOMORROW>>[j + 1])}}

\* The rules in priority order, each with the dates its expressions in the
\* text stand for; the default rule is always present.
RuleDates(n, text, today) ==
    CASE n = 1 -> ExplicitCandidates(text, today)
      [] n = 2 -> OffsetCandidates(text, today)
      [] n = 3 -> NextWeekCandidates(text, today)
      [] n = 4 -> WeekdayCandidates(text, today)
      [] n = 5 -> RelativeCandidates(text, today)
      [] n = 6 -> {AddDays(today, 1)}

\* The highest-priority rule with an expression in the text.
HighestRule(text, today) ==
    IF RuleDates(1, text, today) # {} THEN 1
    ELSE IF RuleDates(2, text, today) # {} THEN 2
    ELSE IF RuleDates(3, text, today) # {} THEN 3
    ELSE IF RuleDates(4, text, today) # {} THEN 4
    ELSE IF RuleDates(5, text, today) # {} THEN 5
    ELSE 6

RulesPresent(text, today) == {n \in 1..5 : RuleDates(n, text, today) # {}}

LocalizedDates(text) ==
    {[m |-> int(SubSeq(text, c[1], c[1] + c[2] - 1)),
      d |-> int(SubSeq(text, c[1] + c[2] + 1, c[1] + c[2] + c[3]))] :
        c \in {c \in (1..Len(text)) \X {1, 2} \X {1, 2} :
                  /\ DigitsAt(text, c[1], c[2])
                  /\ At(text, c[1] + c[2]) = "yue"
                  /\ DigitsAt(text, c[1] + c[2] + 1, c[3])
                  /\ At(text, c[1] + c[2] + 1 + c[3]) \in {"ri", "hao"}
                  /\ At(text, c[1] - 1) \notin Digits}}

\* C17: a text whose only explicit date is a localized month-day form resolves
\* to that month and day of the reference year, whatever keyword follows it.
C17_LocalizedDateResolves ==
    (Parsed /\ LocalizedDates(last.text) # {} /\ ExplicitCandidates(last.text, last.today) = {}) =>
        \E md \in LocalizedDates(last.text) :
            last.result = [y |-> last.today.y, m |-> md.m, d |-> md.d]

\* C18: the next-week weekday of target t from a reference day of weekday r is
\* (7 - r) + t days after the reference, falls on weekday t, and lies in the
\* Monday-to-Sunday week after the reference's week; a text that is one
\* next-week expression resolves to it.
C18_NextWeekWeekdayArithmetic ==
    /\ last.op = "_get_next_week_weekday" =>
          LET r == weekday(last.today)
              t == last.target
              monday == ymd2ord(last.today) - r
          IN  /\ DaysAfter(last.today, last.result) = (7 - r) + t
              /\ weekday(last.result) = t
              /\ ymd2ord(last.result) \in (monday + 7)..(monday + 13)
              /\ (r = 5 /\ t = 0) => DaysAfter(last.today, last.result) = 2
              /\ (r = 0 /\ t = 0) => DaysAfter(last.today, last.result) = 7
    /\ (Parsed /\ last.text = <<"xia", "li", "bai", "wu">>) =>
          DaysAfter(last.today, last.result) = (7 - weekday(last.today)) + 4

\* C18 witness: next Monday asked on Saturday 2025-11-08 is two days later.
C18_Witness ==
    /\ last.op = "_get_next_week_weekday"
    /\ last.today = [y |-> 2025, m |-> 11, d |-> 8]
    /\ weekday(last.today) = 5
    /\ last.target = 0
    /\ last.result = [y |-> 2025, m |-> 11, d |-> 10]

\* C19: a bare weekday resolves to a day 1 to 7 days after the reference that
\* falls on the target weekday, 7 days after when the reference is on that
\* weekday; a text that is one bare weekday keyword resolves to it.
C19_BareWeekdayStrictlyAfter ==
    /\ last.op = "_get_next_weekday" =>
          /\ DaysAfter(last.today, last.result) \in 1..7
          /\ weekday(last.result) = last.target
          /\ weekday(last.today) = last.target => DaysAfter(last.today, last.result) = 7
    /\ (Parsed /\ last.text = <<"xing", "qi", "liu">>) =>
          /\ DaysAfter(last.today, last.result) \in 1..7
          /\ weekday(last.result) = 5
          /\ weekday(last.today) = 5 => DaysAfter(last.today, last.result) = 7

\* C19 witness: Saturday written on Saturday 2025-11-08 resolves to the
\* Saturday a week later.
C19_Witness ==
    /\ Parsed
    /\ last.text = <<"xing", "qi", "liu">>
    /\ last.today = [y |-> 2025, m |-> 11, d |-> 8]
    /\ weekday(last.today) = 5
    /\ last.result = [y |-> 2025, m |-> 11, d |-> 15]

\* C20: a text in which no rule of the resolver has an expression resolves to
\* the day after the reference.
C20_NoMatchIsTomorrow ==
    (Parsed /\ RulesPresent(last.text, last.today) = {}) =>
        last.result = AddDays(last.today, 1)

\* C20 witness: a text of ordinary words, resolved on the last day of 2025 to
\* the first day of 2026.
C20_Witness ==
    /\ Parsed
    /\ last.text = <<" ", "mai", "cai", " ", "mai", "cai">>
    /\ RulesPresent(last.text, last.today) = {}
    /\ last.today = [y |-> 2025, m |-> 12, d |-> 31]
    /\ last.result = [y |-> 2026, m |-> 1, d |-> 1]

(***************************************************************************)
(* Claims about ingestion, checked under SpecIngest.                       *)
(***************************************************************************)
\* C21: every stored task's due date is a day of the calendar.
C21_DueDateIsCalendarDate ==
    \A i \in 1..Len(tasks) : strptime_ok(tasks[i].due_date)

(***************************************************************************)
(* Claims about callback handling over a failing store, checked under      *)
(* SpecFaults.                                                             *)
(***************************************************************************)
Handled == last.op = "callback"

RecordedBefore == Handled /\ is_callback_processed(last.pre.callbacks, last.cb)

\* The task the handled callback refers to, as it was before: <<>> if none.
TaskBefore ==
    IF Handled /\ last.data.prefix = "t" /\ last.data.parse # "bad_id"
    THEN get_task_by_id(last.pre.tasks, last.data.task_id)
    ELSE <<>>

Called(call) == Handled /\ \E i \in 1..Len(last.calls) : last.calls[i] = call

Failed(call) == Called(call) /\ call \in last.failing

\* C22: no two ProcessedCallback records carry the same interaction
\* identifier, and handling a callback leaves every record that was in the
\* table where and as it was.
C22_CallbackRecordedAtMostOnce ==
    /\ \A i, j \in 1..Len(callbacks) :
           callbacks[i].callback_id = callbacks[j].callback_id => i = j
    /\ Handled =>
           /\ Len(callbacks) >= Len(last.pre.callbacks)
           /\ SubSeq(callbacks, 1, Len(last.pre.callbacks)) = last.pre.callbacks

\* The duplicate check failed for a recorded identifier and the handler went
\* on to insert it again.
C22_Witness ==
    /\ RecordedBefore
    /\ Failed("is_callback_processed")
    /\ Called("mark_callback_processed")
    /\ callbacks = last.pre.callbacks

\* C23: in a handling that inserts the interaction identifier, the insert
\* comes before every call of mark_as_done, mark_as_canceled or
\* postpone_task.
C23_InsertBeforeMutation ==
    Handled =>
        \A i, j \in 1..Len(last.calls) :
            /\ last.calls[i] = "mark_callback_processed"
            /\ last.calls[j] \in {"mark_as_done", "mark_as_canceled", "postpone_task"}
            => i < j

\* C24: when the store write of mark_as_done, mark_as_canceled or
\* postpone_task fails, the callback is not recorded and no success is
\* replied.
C24_WriteFailureIsReported ==
    (Failed("update_task_status") \/ Failed("update_task_due_date")) =>
        /\ callbacks = last.pre.callbacks
        /\ last.reply \notin {"task_done", "task_canceled", "postponed"}

\* C25: after a postpone was handled, the task does not carry a new due
\* date together with the non-pending status it had before.
C25_PostponeIsOneStep ==
    (Called("postpone_task") /\ TaskBefore # <<>>) =>
        LET before == TaskBefore[1]
            after == get_task_by_id(tasks, last.data.task_id)[1]
        IN  ~ /\ after.due_date # before.due_date
              /\ before.status # STATUS_PENDING
              /\ after.status = before.status

AcceptedReplies ==
    {"task_done", "postpone_prompt", "task_canceled", "postponed", "input_mode", "skipped"}

C29_ResolvedTaskIsAlreadyHandled ==
    ( /\ Handled /\ ~RecordedBefore
      /\ last.failing = {}
      /\ last.data.parse = "ok"
      /\ last.data.action \in {ACTION_DONE, ACTION_UNDONE, ACTION_CANCEL, ACTION_POSTPONE}
      /\ TaskBefore # <<>>
      /\ TaskBefore[1].status \in {STATUS_DONE, STATUS_CANCELED} ) =>
        /\ last.reply = "already_processed"
        /\ tasks = last.pre.tasks
        /\ callbacks = last.pre.callbacks
        /\ users = last.pre.users

(***************************************************************************)
(* Claims about startup, checked under SpecStartup.                        *)
(***************************************************************************)
\* C26: after the startup installation the process has not terminated and
\* every user whose stored settings are usable has an evening trigger,
\* whatever the other users' stored time zones are.
C26_StartupKeepsProgressPerUser ==
    last.op = "start_scheduler" =>
        /\ phase # "exited"
        /\ \A i \in 1..Len(users) :
               pytz_timezone_ok(users[i].tz) => get_job(jobs, evening_job_id(users[i].id)) # {}

(***************************************************************************)
(* Claims about consecutive evenings, checked under SpecNightly.           *)
(***************************************************************************)
\* C30: a later firing of the evening routine that found the flag set, by a
\* skip accepted during or after the evening before, has cleared it before
\* reading it: unless a skip is accepted again after the clear, the re-read
\* flag is unset and the prompt is sent.
C30_SkipDoesNotOutliveTheEvening ==
    ( /\ routine.pc = "returned" /\ routine.job = "evening"
      /\ last.firings >= 2
      /\ routine.flag_before
      /\ ~routine.skip_between ) =>
        /\ routine.reread = <<FALSE>>
        /\ PromptSent

\* The second evening's routine found the flag set by an accepted skip,
\* sent its review and then the prompt.
C30_Witness ==
    /\ routine.pc = "returned" /\ routine.job = "evening"
    /\ last.firings = 2
    /\ routine.flag_before
    /\ routine.skips_at_clear >= 1
    /\ ~routine.skip_between
    /\ Len(routine.sent) >= 2
    /\ PromptSent

(***************************************************************************)
(* Claims about a rebuild beside a running routine, checked under          *)
(* SpecRebuild.                                                            *)
(***************************************************************************)
\* The evening jobs of the user, as a bag.
EveningJobsOf(user_id) ==
    [j \in get_job(jobs, evening_job_id(user_id)) |-> jobs[j]]

\* C27: after rebuild_user_jobs ran while the same user's evening routine
\* was awaiting a send, the routine is still the one that was running, with
\* nothing of its review and prompt lost, it returns having sent all of it,
\* and the user has exactly one evening job, which carries the stored
\* configuration.
C27_RebuildBesideRunningRoutine ==
    (last.op = "rebuild_user_jobs" /\ last.in_flight) =>
        /\ routine.pc \in {"sending", "returned", "raised"}
        /\ routine.user = last.user
        /\ routine.pc \in {"sending", "returned"} => RoutineTotal(routine) = last.total
        /\ routine.pc = "returned" => PromptSent
        /\ NoUpdateInProgress =>
               LET user == users[last.user]
               IN  EveningJobsOf(user.id) =
                       SetToBag({[id |-> evening_job_id(user.id), func |-> "_evening_routine",
                                  args |-> <<user.id>>, hour |-> user.evening_hour,
                                  minute |-> user.evening_min, tz |-> user.tz]})

\* /setevening 00:15 was completed while the routine was sending its review;
\* the routine returned with review and prompt sent and the job is at 00:15.
C27_Witness ==
    /\ last.op = "rebuild_user_jobs" /\ last.in_flight
    /\ last.cmd = "setevening"
    /\ routine.pc = "returned"
    /\ Len(routine.sent) = last.total
    /\ Len(routine.sent) >= 2
    /\ NoUpdateInProgress
    /\ \E j \in BagToSet(jobs) : j.id = evening_job_id(last.user) /\ j.hour = 0 /\ j.minute = 15

(***************************************************************************)
(* Claims about input mode, checked under SpecInputMode.                   *)
(***************************************************************************)
\* The user of the chat the last message came from: <<>> if none.
Sender == get_user_by_chat_id(users, last.chat_id)

\* C31: a text message creates tasks only if its sender was awaiting input;
\* then it creates one pending task per line, owned by the sender, and
\* leaves the sender's flag unset; otherwise it changes no task.
C31_InputModeIsOneShot ==
    last.op = "text" =>
        /\ ~last.awaiting => Len(tasks) = last.stored /\ last.reply = "none"
        /\ last.awaiting =>
               /\ Sender # <<>>
               /\ ~Sender[1].awaiting_plans
               /\ Len(tasks) = last.stored + last.lines
               /\ \A i \in (last.stored + 1)..Len(tasks) :
                      tasks[i].user_id = Sender[1].id /\ tasks[i].status = STATUS_PENDING

\* The sender's earlier message created every stored task and ended the
\* input mode; this message, with no /add and no button in between, creates
\* nothing.
C31_Witness ==
    /\ last.op = "text"
    /\ ~last.awaiting
    /\ last.stored >= 1
    /\ Len(tasks) = last.stored
    /\ Sender # <<>>
    /\ \A i \in 1..Len(tasks) : tasks[i].user_id = Sender[1].id

\* The input mode was entered with the button of the prompt and the message
\* created the tasks.
C31_WitnessButton ==
    /\ last.op = "text"
    /\ last.awaiting
    /\ Len(callbacks) >= 1
    /\ Len(tasks) = last.stored + last.lines

(***************************************************************************)
(* Claims about the settings commands, checked under SpecSettings.         *)
(***************************************************************************)
TimeOfDay(hour, minute) == hour \in 0..23 /\ minute \in 0..59

ConfigurationValid ==
    \A i \in 1..Len(users) :
        /\ TimeOfDay(users[i].evening_hour, users[i].evening_min)
        /\ \/ TimeOfDay(users[i].morning_hour, users[i].morning_min)
           \/ users[i].morning_hour = -1 /\ users[i].morning_min = -1

\* C32: every user's evening time is a time of day and the morning time is
\* a time of day or the disabled marker (-1, -1); a settings command that
\* is refused, or whose store update fails, changes neither the users table
\* nor the installed jobs.
C32_ConfigurationStaysValid ==
    /\ []ConfigurationValid
    /\ [][(last'.op \in {"rejected", "update_failed"} /\ last' # last)
              => (users' = users /\ jobs' = jobs)]_vars

\* After /setevening 00:15 and /setmorning off took effect, a command was
\* refused.
C32_Witness ==
    /\ last.op = "rejected"
    /\ \E i \in 1..Len(users) :
           /\ users[i].evening_hour = 0 /\ users[i].evening_min = 15
           /\ users[i].morning_hour = -1
           /\ get_job(jobs, morning_job_id(users[i].id)) = {}
           /\ \E j \in get_job(jobs, evening_job_id(users[i].id)) : j.hour = 0

(***************************************************************************)
(* Claims about the dates the routines query, checked under SpecZones.     *)
(***************************************************************************)
\* The calendar date of the instant explored, 2025-11-30 18:00 UTC, in a zone.
DateInZone(tz) ==
    IF tz = "Asia/Shanghai" THEN [y |-> 2025, m |-> 12, d |-> 1]
    ELSE [y |-> 2025, m |-> 11, d |-> 30]

DayBeforeInZone(tz) ==
    IF tz = "Asia/Shanghai" THEN [y |-> 2025, m |-> 11, d |-> 30]
    ELSE [y |-> 2025, m |-> 11, d |-> 29]

\* The tasks the messages list.
Listed(msgs) == {msgs[i].items[j] : <<i, j>> \in
                    {ij \in (1..Len(msgs)) \X (1..MaxStoredTasks) : ij[2] <= Len(msgs[ij[1]].items)}}

UnresolvedDue(user_id, due) ==
    {t \in 1..Len(tasks) : /\ tasks[t].user_id = user_id
                           /\ tasks[t].status \in {STATUS_PENDING, STATUS_MISSED}
                           /\ tasks[t].due_date = due}

\* The step is the firing of an evening or morning job.
Fires ==
    /\ routine.pc \in {"none", "returned", "raised"}
    /\ routine'.pc \in {"sending", "returned"}
    /\ routine' # routine

\* The step is one user of the sweep, handled without a send that raised.
Sweeps ==
    /\ routine.pc = "sweep" /\ routine'.pc = "sweep"
    /\ routine'.idx = routine.idx + 1
    /\ routine'.raised = routine.raised

\* C33: a firing evening or morning routine lists exactly the unresolved
\* tasks of its user due on the date of the current instant in the zone
\* stored for that user when it fires, and the sweep lists for each user
\* those due the day before that date.
C33_DatesInStoredZoneAtRun ==
    [][ /\ Fires =>
            Listed(routine'.queue) =
                UnresolvedDue(routine'.user, DateInZone(users[routine'.user].tz))
        /\ Sweeps =>
            Listed(SubSeq(routine'.sent, Len(routine.sent) + 1, Len(routine'.sent))) =
                UnresolvedDue(routine.idx, DayBeforeInZone(users[routine.idx].tz))
      ]_vars

\* The first user was moved from the default zone to UTC and the evening
\* routine that fired afterwards lists a task due 2025-11-30, today in UTC
\* and yesterday in the default zone.
C33_Witness ==
    /\ phase = "running"
    /\ routine.pc = "sending" /\ routine.job = "evening" /\ routine.user = 1
    /\ users[1].tz = "UTC"
    /\ \E t \in Listed(routine.queue) : tasks[t].due_date = [y |-> 2025, m |-> 11, d |-> 30]

\* The sweep listed, for two users in different zones, tasks due on
\* different dates.
C33_WitnessSweep ==
    /\ routine.pc = "sweep"
    /\ \E s, t \in Listed(routine.sent) :
           /\ tasks[s].user_id # tasks[t].user_id
           /\ tasks[s].due_date # tasks[t].due_date

(***************************************************************************)
(* Claims about the order of startup, checked under SpecBoot.              *)
(***************************************************************************)
\* The sweep of this start has begun.
SweepBegun == phase \in {"post_init", "running"}

\* The sweep runs once per start and begins with every user's evening job
\* installed.
SweepOnceAfterInstall == SweepBegun => (last.sweeps = 1 /\ last.installed)

\* C34: the sweep runs once per process start, begins with the jobs of
\* every user installed, and no evening or morning routine has run by the
\* time it ends.
C34_SweepOnceBeforeLiveRoutines ==
    SweepBegun => (last.sweeps = 1 /\ last.installed /\ ~last.fired_in_sweep)

(***************************************************************************)
(* Claims about the pacing of a review, checked under SpecPacing.          *)
(***************************************************************************)
ReviewDone == last.op = "_send_daily_review" /\ last.pc = "done"

\* What the call awaited after the header.
AfterHeader == Tail(last.awaited)

Sends == SelectSeq(AfterHeader, LAMBDA e : e.kind = "send")

Sleeps == {p \in 1..Len(AfterHeader) : AfterHeader[p].kind = "sleep"}

CeilDiv(n, b) == (n + b - 1) \div b

\* C35: a finished review of n tasks has sent them one by one in task-id
\* order and has slept ceil(n/B) - 1 times (not at all for n <= B), each
\* sleep directly after a complete batch of B sends and none after the last
\* send.
C35_BatchPacing ==
    ReviewDone =>
        LET n == Len(last.tasks)
            B == MAX_TASKS_PER_MESSAGE
        IN  /\ [p \in 1..Len(Sends) |-> Sends[p].task] = last.tasks
            /\ \A p \in 1..(n - 1) : last.tasks[p] < last.tasks[p + 1]
            /\ Cardinality(Sleeps) = IF n <= B THEN 0 ELSE CeilDiv(n, B) - 1
            /\ \A p \in Sleeps :
                  /\ p > B
                  /\ \A q \in (p - B)..(p - 1) : AfterHeader[q].kind = "send"
                  /\ p - B > 1 => AfterHeader[p - B - 1].kind = "sleep"
                  /\ p < Len(AfterHeader)

\* A review of more than two batches is finished.
C35_Witness == ReviewDone /\ Len(last.tasks) > 2 * MAX_TASKS_PER_MESSAGE

\* A review of exactly two full batches is finished.
C35_WitnessFullBatches == ReviewDone /\ Len(last.tasks) = 2 * MAX_TASKS_PER_MESSAGE

(***************************************************************************)
(* Claims about what the routines write, checked under SpecNotify.         *)
(***************************************************************************)
\* A step of the sweep or of a trigger routine: only these move routine.
RoutineStep == routine' # routine

\* The evening routine starts for the user routine' names.
EveningStarts == routine.pc \in {"none", "returned", "raised"} /\ routine'.job = "evening"

\* C36: a step of the evening routine, the morning routine or the recovery
\* sweep (send_makeup_review within it) leaves every task and every
\* processed-callback record as it was; the users table changes, if at all,
\* at the start of the evening routine and only in that user's
\* skipped_tonight, which becomes FALSE.
C36_RoutinesOnlyClearTheSkipFlag ==
    [][RoutineStep =>
          /\ tasks' = tasks
          /\ callbacks' = callbacks
          /\ users' # users =>
                /\ EveningStarts
                /\ users' = [users EXCEPT ![routine'.user].skipped_tonight = FALSE]]_vars

\* An evening routine that found the flag set and cleared it has returned,
\* on a database where buttons have been handled, the input mode is on and
\* a task is unresolved.
C36_Witness ==
    /\ routine.pc = "returned" /\ routine.job = "evening"
    /\ routine.flag_before /\ ~users[routine.user].skipped_tonight
    /\ users[routine.user].awaiting_plans
    /\ callbacks # <<>>
    /\ \E i \in 1..Len(tasks) : tasks[i].status = STATUS_PENDING

\* The sweep has delivered a makeup review and a task has since been done.
C36_WitnessSweep ==
    /\ last.op = "callback" /\ last.reply # "already_processed"
    /\ phase = "running" /\ callbacks # <<>>

(***************************************************************************)
(* Claims about repeated postponement, checked under SpecPostpone.         *)
(***************************************************************************)
RECURSIVE SumOf(_)
SumOf(days) == IF days = <<>> THEN 0 ELSE Head(days) + SumOf(Tail(days))

Notified ==
    Listed(routine.sent) \cup (IF routine.pc = "sending" THEN Listed(routine.queue) ELSE {})

\* Days from the task's due date to the owner's local today.
DaysPast(t) == ymd2ord(DateInZone(users[tasks[t].user_id].tz)) - ymd2ord(tasks[t].due_date)

InSweep == routine.pc = "sweep" \/ (routine.pc = "returned" /\ routine.job = "sweep")

\* C38: a task listed by the evening or the morning routine is due on its
\* owner's local today, a task listed by the makeup review of the sweep is
\* due on the owner's local yesterday, and a task due two or more days
\* before the owner's local today is listed by no routine.
C38_NotificationWindow ==
    \A t \in 1..Len(tasks) :
        /\ t \in Notified => DaysPast(t) = (IF InSweep THEN 1 ELSE 0)
        /\ DaysPast(t) >= 2 => t \notin Notified

\* An evening routine has sent its review with an older unresolved task in
\* the table.
C38_Witness ==
    /\ routine.pc = "returned" /\ routine.job = "evening" /\ Notified # {}
    /\ \E t \in 1..Len(tasks) : DaysPast(t) >= 2

\* A sweep has sent a makeup review with an older unresolved task in the
\* table.
C38_WitnessSweep ==
    /\ routine.pc = "returned" /\ routine.job = "sweep" /\ Notified # {}
    /\ \E t \in 1..Len(tasks) : DaysPast(t) >= 2

\* C39: when a sweep is over, a user with an unresolved task due yesterday
\* has been sent one makeup review per start of the process, whether or not
\* the previous evening's routine delivered those tasks.
C39_MakeupAtEveryStart ==
    (phase = "running" /\ UnresolvedDue(1, DayBeforeInZone(users[1].tz)) # {})
        => last.makeups = last.starts

\* Three starts in the day have sent three makeup reviews of tasks the
\* previous evening's routine had delivered.
C39_Witness ==
    /\ phase = "running" /\ last.delivered_before
    /\ last.starts = MaxRestarts /\ last.makeups = MaxRestarts
    /\ UnresolvedDue(1, DayBeforeInZone(users[1].tz)) # {}

\* A user with no unresolved task due yesterday is sent no makeup review.
NoMakeupWithoutTasks ==
    UnresolvedDue(1, DayBeforeInZone(users[1].tz)) = {} => last.makeups = 0

(***************************************************************************)
(* Claims about the statuses the running system reaches, checked under     *)
(* SpecSystem.                                                             *)
(***************************************************************************)
\* C40: no task has the status missed: ingestion stores pending, and no
\* command, button, routine or step of the sweep calls mark_as_missed.
C40_MissedIsUnreachable ==
    \A t \in 1..Len(tasks) : tasks[t].status # STATUS_MISSED

\* Ingested tasks have been listed by a routine and a button has resolved
\* one of them.
C40_Witness ==
    /\ Len(tasks) = MaxStoredTasks
    /\ \E t \in 1..Len(tasks) : tasks[t].status \in {STATUS_DONE, STATUS_CANCELED}
    /\ routine.pc = "returned" /\ routine.sent # <<>>

====
